---------------------------- MODULE Spec2Model ----------------------------
(***************************************************************************)
(* Request admission of the blessing backend: the signed session token     *)
(* (generateToken / verifyToken), the middleware in front of /api/*, and   *)
(* the authentication prefix of the route handlers behind it.              *)
(*                                                                         *)
(* Strings are sequences of character codes (ASCII), so that the text      *)
(* transforms of the code (base64, JSON, split, replace) are computed and  *)
(* not assumed.                                                            *)
(***************************************************************************)
EXTENDS Integers, Sequences, FiniteSets, TLC

(***************************************************************************)
(* Characters                                                              *)
(***************************************************************************)
DOT       == 46   \* '.'
EQUALS    == 61   \* '='
PLUS      == 43   \* '+'
SLASH     == 47   \* '/'
MINUS     == 45   \* '-'
UNDERSCORE == 95  \* '_'
QUOTE     == 34   \* '"'
BACKSLASH == 92   \* '\'

\* An absent cookie, header or environment entry.  The code reads such a value
\* only through `||`, `!` and `?.`, where undefined, null and '' behave alike
\* (all falsy), so one value stands for the three.
NoValue == <<>>

\* str.replace(/x/g, y) for single characters x, y
ReplaceAllChar(str, from, to) ==
    [i \in 1..Len(str) |-> IF str[i] = from THEN to ELSE str[i]]

\* str.replace(/x/g, '')
RemoveAllChar(str, c) == SelectSeq(str, LAMBDA x : x # c)

\* str.split(sep) for a one-character separator: the list of the parts,
\* one more than the separators in str
Split(str, sep) ==
    LET seps   == {i \in 1..Len(str) : str[i] = sep}
        n      == Cardinality(seps)
        pos(k) == IF k = 0 THEN 0
                  ELSE IF k = n + 1 THEN Len(str) + 1
                  ELSE CHOOSE i \in seps :
                           Cardinality({j \in seps : j <= i}) = k
    IN  [k \in 1..(n + 1) |-> SubSeq(str, pos(k - 1) + 1, pos(k) - 1)]

(***************************************************************************)
(* Token codec: Buffer base64 and its URL-safe, padding-free variant       *)
(***************************************************************************)
\* The base64 alphabet: 6-bit value -> character
B64Char(v) ==
    IF v < 26 THEN 65 + v
    ELSE IF v < 52 THEN 97 + (v - 26)
    ELSE IF v < 62 THEN 48 + (v - 52)
    ELSE IF v = 62 THEN PLUS ELSE SLASH

\* Character -> 6-bit value, -1 for a character outside the alphabet.  The
\* decoder of Buffer.from(s, 'base64') also reads the URL-safe '-' and '_'.
B64Val(c) ==
    IF c >= 65 /\ c <= 90 THEN c - 65
    ELSE IF c >= 97 /\ c <= 122 THEN c - 97 + 26
    ELSE IF c >= 48 /\ c <= 57 THEN c - 48 + 52
    ELSE IF c = PLUS \/ c = MINUS THEN 62
    ELSE IF c = SLASH \/ c = UNDERSCORE THEN 63
    ELSE -1

\* Buffer.from(bytes).toString('base64'): three bytes to four characters,
\* the last group padded with '='
Base64Encode(b) ==
    LET n == Len(b)
        byte(i) == IF i <= n THEN b[i] ELSE 0
        char(j) ==
            LET g  == (j - 1) \div 4
                k  == (j - 1) % 4
                b1 == byte(3 * g + 1)
                b2 == byte(3 * g + 2)
                b3 == byte(3 * g + 3)
            IN  IF k = 0 THEN B64Char(b1 \div 4)
                ELSE IF k = 1 THEN B64Char((b1 % 4) * 16 + (b2 \div 16))
                ELSE IF k = 2 THEN
                    IF 3 * g + 2 > n THEN EQUALS
                    ELSE B64Char((b2 % 16) * 4 + (b3 \div 64))
                ELSE IF 3 * g + 3 > n THEN EQUALS ELSE B64Char(b3 % 64)
    IN  [j \in 1..(4 * ((n + 2) \div 3)) |-> char(j)]

\* The 6-bit values Buffer.from(s, 'base64') reads: it stops at the first
\* '=' and skips every character outside the alphabet
B64Values(s) ==
    LET pads == {i \in 1..Len(s) : s[i] = EQUALS}
        stop == IF pads = {} THEN Len(s) + 1
                ELSE CHOOSE i \in pads : \A j \in pads : i <= j
        read == SelectSeq(SubSeq(s, 1, stop - 1), LAMBDA c : B64Val(c) >= 0)
    IN  [i \in 1..Len(read) |-> B64Val(read[i])]

\* Four 6-bit values to three bytes; a last group of two values gives one
\* byte, of three values two bytes
B64Bytes(v) ==
    LET m == Len(v)
        r == m % 4
        n == 3 * (m \div 4) + (IF r = 2 THEN 1 ELSE IF r = 3 THEN 2 ELSE 0)
        val(i) == IF i <= m THEN v[i] ELSE 0
        byte(j) ==
            LET g == (j - 1) \div 3
                k == (j - 1) % 3
            IN  IF k = 0 THEN val(4 * g + 1) * 4 + (val(4 * g + 2) \div 16)
                ELSE IF k = 1 THEN
                    (val(4 * g + 2) % 16) * 16 + (val(4 * g + 3) \div 4)
                ELSE (val(4 * g + 3) % 4) * 64 + val(4 * g + 4)
    IN  [j \in 1..n |-> byte(j)]

\* Buffer.from(s, 'base64')
Base64Decode(s) == B64Bytes(B64Values(s))

\* toBase64Url of generateToken
toBase64Url(str) ==
    RemoveAllChar(
        ReplaceAllChar(ReplaceAllChar(Base64Encode(str), PLUS, MINUS),
                       SLASH, UNDERSCORE),
        EQUALS)

\* fromBase64Url of verifyToken: back to the standard alphabet, padded
fromBase64Url(str) ==
    LET base64  == ReplaceAllChar(ReplaceAllChar(str, MINUS, PLUS),
                                  UNDERSCORE, SLASH)
        padding == Len(base64) % 4
    IN  base64 \o [i \in 1..(IF padding = 0 THEN 0 ELSE 4 - padding) |-> EQUALS]

(***************************************************************************)
(* JSON.stringify / JSON.parse of the token payload                        *)
(***************************************************************************)
\* JSON.stringify of a string: quoted, with '"' and '\' escaped
RECURSIVE JsonEscape(_)
JsonEscape(str) ==
    IF Len(str) = 0 THEN <<>>
    ELSE (IF Head(str) = QUOTE \/ Head(str) = BACKSLASH
          THEN <<BACKSLASH, Head(str)>> ELSE <<Head(str)>>)
         \o JsonEscape(Tail(str))

JsonString(str) == <<QUOTE>> \o JsonEscape(str) \o <<QUOTE>>

\* JSON.stringify of a non-negative integer: its decimal digits
RECURSIVE JsonNumber(_)
JsonNumber(n) ==
    IF n < 10 THEN <<48 + n>> ELSE JsonNumber(n \div 10) \o <<48 + (n % 10)>>

\* '{"alg":"HS256","typ":"JWT"}'
HeaderJson ==
    <<123, 34, 97, 108, 103, 34, 58, 34, 72, 83, 50, 53, 54, 34, 44, 34,
      116, 121, 112, 34, 58, 34, 74, 87, 84, 34, 125>>

KeySub    == <<123, 34, 115, 117, 98, 34, 58>>               \* '{"sub":'
KeyOpenid == <<44, 34, 111, 112, 101, 110, 105, 100, 34, 58>> \* ',"openid":'
KeyIat    == <<44, 34, 105, 97, 116, 34, 58>>                 \* ',"iat":'
KeyExp    == <<44, 34, 101, 120, 112, 34, 58>>                \* ',"exp":'
CloseBrace == <<125>>                                         \* '}'

\* JSON.stringify({ sub, openid, iat, exp })
PayloadJson(sub, openid, iat, exp) ==
    KeySub \o JsonString(sub) \o KeyOpenid \o JsonString(openid)
    \o KeyIat \o JsonNumber(iat) \o KeyExp \o JsonNumber(exp) \o CloseBrace

ParseFail == [ok |-> FALSE]

HasLit(text, pos, lit) ==
    /\ pos + Len(lit) - 1 <= Len(text)
    /\ SubSeq(text, pos, pos + Len(lit) - 1) = lit

\* The characters of a JSON string, from the one after its opening quote
RECURSIVE ScanString(_, _, _)
ScanString(text, i, acc) ==
    IF i > Len(text) THEN ParseFail
    ELSE IF text[i] = QUOTE THEN [ok |-> TRUE, val |-> acc, next |-> i + 1]
    ELSE IF text[i] = BACKSLASH THEN
        IF i + 1 <= Len(text) /\ text[i + 1] \in {QUOTE, BACKSLASH}
        THEN ScanString(text, i + 2, Append(acc, text[i + 1]))
        ELSE ParseFail
    ELSE IF text[i] < 32 THEN ParseFail
    ELSE ScanString(text, i + 1, Append(acc, text[i]))

ParseString(text, pos) ==
    IF pos <= Len(text) /\ text[pos] = QUOTE
    THEN ScanString(text, pos + 1, <<>>) ELSE ParseFail

IsDigit(c) == c >= 48 /\ c <= 57

RECURSIVE ScanNumber(_, _, _)
ScanNumber(text, i, acc) ==
    IF i <= Len(text) /\ IsDigit(text[i])
    THEN ScanNumber(text, i + 1, acc * 10 + (text[i] - 48))
    ELSE [ok |-> TRUE, val |-> acc, next |-> i]

\* A JSON number: digits, no leading zero
ParseNumber(text, pos) ==
    IF pos > Len(text) \/ ~IsDigit(text[pos]) THEN ParseFail
    ELSE IF text[pos] = 48 /\ pos < Len(text) /\ IsDigit(text[pos + 1])
    THEN ParseFail
    ELSE ScanNumber(text, pos, 0)

\* JSON.parse of a payload text.  It reads the object layout JSON.stringify
\* writes for { sub, openid, iat, exp }; on any other text it fails (the
\* SyntaxError the code catches).
ParsePayload(text) ==
    IF ~HasLit(text, 1, KeySub) THEN ParseFail ELSE
    LET s == ParseString(text, 1 + Len(KeySub)) IN
    IF ~s.ok \/ ~HasLit(text, s.next, KeyOpenid) THEN ParseFail ELSE
    LET o == ParseString(text, s.next + Len(KeyOpenid)) IN
    IF ~o.ok \/ ~HasLit(text, o.next, KeyIat) THEN ParseFail ELSE
    LET i == ParseNumber(text, o.next + Len(KeyIat)) IN
    IF ~i.ok \/ ~HasLit(text, i.next, KeyExp) THEN ParseFail ELSE
    LET e == ParseNumber(text, i.next + Len(KeyExp)) IN
    IF ~e.ok \/ ~HasLit(text, e.next, CloseBrace)
             \/ e.next # Len(text) THEN ParseFail
    ELSE [ok |-> TRUE, sub |-> s.val, openid |-> o.val,
          iat |-> i.val, exp |-> e.val]

(***************************************************************************)
(* Token service                                                           *)
(***************************************************************************)
\* 'default-secret-change-in-production'
DEFAULT_SECRET ==
    <<100, 101, 102, 97, 117, 108, 116, 45, 115, 101, 99, 114, 101, 116, 45,
      99, 104, 97, 110, 103, 101, 45, 105, 110, 45, 112, 114, 111, 100, 117,
      99, 116, 105, 111, 110>>

\* process.env.JWT_SECRET || 'default-secret-change-in-production'
JWT_SECRET(env) == IF env = NoValue THEN DEFAULT_SECRET ELSE env

\* 7 * 24 * 60 * 60 * 1000 ms
TOKEN_TTL == 7 * 24 * 60 * 60 * 1000

\* crypto.createHmac('sha256', key).update(msg).digest(): the digest bytes.
\* SHA-256 is not computed; the digest stands for an ideal MAC, of which the
\* model uses that two different (key, message) pairs have different digests:
\* it is the length-prefixed key followed by the message.
HmacSha256(key, msg) == <<Len(key)>> \o key \o msg

\* createHmac(...).update(`${header}.${payload}`).digest('base64'), made
\* URL-safe and stripped of padding
Sign(header, payload, secret) ==
    RemoveAllChar(
        ReplaceAllChar(
            ReplaceAllChar(
                Base64Encode(HmacSha256(secret, header \o <<DOT>> \o payload)),
                PLUS, MINUS),
            SLASH, UNDERSCORE),
        EQUALS)

\* generateToken with exp written in seconds, as JWT libraries do, while
\* verifyToken compares it with milliseconds
generateToken_expSeconds(userId, openid, now, env) ==
    LET header  == toBase64Url(HeaderJson)
        payload == toBase64Url(PayloadJson(userId, openid, now,
                                           (now + TOKEN_TTL) \div 1000))
        signature == Sign(header, payload, JWT_SECRET(env))
    IN  header \o <<DOT>> \o payload \o <<DOT>> \o signature

\* generateToken(userId, openid) called at instant now
generateToken(userId, openid, now, env) ==
    LET header  == toBase64Url(HeaderJson)
        payload == toBase64Url(PayloadJson(userId, openid, now, now + TOKEN_TTL))
        signature == Sign(header, payload, JWT_SECRET(env))
    IN  header \o <<DOT>> \o payload \o <<DOT>> \o signature

\* The value verifyToken returns for a rejected token
Rejected == [ok |-> FALSE]

\* The part count checked from below only
WrongShape_tooFew(parts) == Len(parts) < 3

\* parts.length !== 3
WrongShape(parts) == Len(parts) # 3

\* The signature comparison left out
SignatureMismatch_skipped(signature, expectedSignature) == FALSE

\* signature !== expectedSignature
SignatureMismatch(signature, expectedSignature) ==
    signature # expectedSignature

\* The expiry check left out
IsExpired_never(exp, now) == FALSE

\* The expiry check with a grace period compared the wrong way round
IsExpired_graceInverted(exp, now) == exp < now /\ now - exp < 2

\* decoded.exp < Date.now()
IsExpired(exp, now) == exp < now

\* verifyToken(token) called at instant now
verifyToken(token, now, env) ==
    LET parts == Split(token, DOT) IN
    IF WrongShape(parts) THEN Rejected ELSE
    LET header    == parts[1]
        payload   == parts[2]
        signature == parts[3]
        expectedSignature == Sign(header, payload, JWT_SECRET(env))
    IN
    IF SignatureMismatch(signature, expectedSignature) THEN Rejected ELSE
    LET decoded == ParsePayload(Base64Decode(fromBase64Url(payload))) IN
    IF ~decoded.ok THEN Rejected
    ELSE IF IsExpired(decoded.exp, now) THEN Rejected
    ELSE [ok |-> TRUE, userId |-> decoded.sub, openid |-> decoded.openid]

\* Variant: verifyToken decodes and checks the payload before it compares
\* the signatures
verifyTokenExit_payloadFirst(token, now, env) ==
    LET parts == Split(token, DOT) IN
    IF WrongShape(parts) THEN "shape" ELSE
    LET decoded == ParsePayload(Base64Decode(fromBase64Url(parts[2]))) IN
    IF ~decoded.ok THEN "parse"
    ELSE IF IsExpired(decoded.exp, now) THEN "expired"
    ELSE IF SignatureMismatch(parts[3],
                              Sign(parts[1], parts[2], JWT_SECRET(env)))
    THEN "signature"
    ELSE "return"

\* The statement of verifyToken a call leaves it by: "shape" (the part
\* count), "signature" (the comparison), "parse" (JSON.parse throws into
\* the catch block), "expired", or "return" with the identity
verifyTokenExit(token, now, env) ==
    LET parts == Split(token, DOT) IN
    IF WrongShape(parts) THEN "shape" ELSE
    LET expectedSignature == Sign(parts[1], parts[2], JWT_SECRET(env)) IN
    IF SignatureMismatch(parts[3], expectedSignature) THEN "signature" ELSE
    LET decoded == ParsePayload(Base64Decode(fromBase64Url(parts[2]))) IN
    IF ~decoded.ok THEN "parse"
    ELSE IF IsExpired(decoded.exp, now) THEN "expired"
    ELSE "return"

\* signature !== expectedSignature is JavaScript's strict inequality of two
\* strings.  The characters it examines are left to the engine: it may stop
\* at the first position where the strings differ (strings of different
\* lengths differ without a character examined), or examine them all.
FirstDifference(a, b) ==
    IF Len(a) # Len(b) THEN 0
    ELSE IF a = b THEN Len(a)
    ELSE CHOOSE i \in 1..Len(a) :
            /\ a[i] # b[i]
            /\ \A j \in 1..(i - 1) : a[j] = b[j]

StrictNotEqualWork(signature, expectedSignature) ==
    {FirstDifference(signature, expectedSignature), Len(expectedSignature)}

(***************************************************************************)
(* State                                                                   *)
(***************************************************************************)
VARIABLES
    now,        \* Date.now(), in ms
    envSecret,  \* process.env.JWT_SECRET, NoValue when not configured
    minted,     \* the token generateToken returned, with what went into it
    call,       \* the verifyToken call in progress: its argument and result
    reqs,       \* the requests in evaluation, by slot
    counters,   \* the shared rate-limit store: key -> [count, expiresAt]
    admitCalls, \* history: (address, bucket) -> the checkRateLimit calls returned
    served,     \* history: the number of requests that have arrived
    passed,     \* history: (address, instant) -> the requests let through
                \* by the middleware that were counted at that instant
    users,      \* the table users, in the order of insertion
    history,    \* the table user_history and the number of ids it has issued
    logins      \* the POST login requests in evaluation, by slot

tokenVars == <<minted, call>>
gatewayVars == <<reqs, counters, admitCalls, served, passed>>
storeVars == <<users, history, logins>>
vars == <<now, envSecret, tokenVars, gatewayVars, storeVars>>

(***************************************************************************)
(* Bounds and inputs                                                       *)
(***************************************************************************)
\* Instants are taken up to MaxSkew ms after the start and from one ms
\* before to MaxSkew ms after the expiry of a token minted at the start.
MaxSkew == 2

ClockValues == (0..MaxSkew) \cup ((TOKEN_TTL - 1)..(TOKEN_TTL + MaxSkew))

\* 's3cret', a configured JWT_SECRET
ConfiguredSecret == <<115, 51, 99, 114, 101, 116>>

EnvSecrets == {NoValue, ConfiguredSecret}

\* (user id, openid) pairs: 'u"1' / 'oA' (an id JSON has to escape) and
\* 'u2' / 'o\2'
Identities ==
    { [userId |-> <<117, 34, 49>>, openid |-> <<111, 65>>],
      [userId |-> <<117, 50>>,     openid |-> <<111, 92, 50>>] }

\* The characters a tampered token gets in place of one of its own: 'A', '.'
TamperChars == {65, DOT}

NoToken == [userId |-> <<>>, openid |-> <<>>, iat |-> -1, exp |-> -1]
NoCall  == [kind |-> "none"]

(***************************************************************************)
(* Gateway: configuration, inputs and the shape of a request               *)
(***************************************************************************)
\* The limiter's configuration: the window W in ms (60 s) and the ceiling N
\* of requests per window and client address, which the model takes small.
WINDOW_MS == 60000
MAX_REQUESTS == 2

\* The number of requests in evaluation at the same time in a run of
\* concurrent requests, each in a slot of its own.
MaxRequests == 3

\* The number of requests a run evaluates one after the other.
MaxServed == 4

\* The number of window boundaries the clock may pass.
MaxWindows == 1

Slots == 1..MaxRequests

\* 'MicroMessenger'
MICRO_MESSENGER ==
    <<77, 105, 99, 114, 111, 77, 101, 115, 115, 101, 110, 103, 101, 114>>

\* The User-Agent header a client sends, by name
UserAgentText(ua) ==
    CASE ua = "wechat"  ->  \* 'Mozilla/5.0 MicroMessenger/8.0'
            <<77, 111, 122, 105, 108, 108, 97, 47, 53, 46, 48, 32, 77, 105,
              99, 114, 111, 77, 101, 115, 115, 101, 110, 103, 101, 114, 47,
              56, 46, 48>>
      [] ua = "browser" ->  \* 'Mozilla/5.0 Chrome/120'
            <<77, 111, 122, 105, 108, 108, 97, 47, 53, 46, 48, 32, 67, 104,
              114, 111, 109, 101, 47, 49, 50, 48>>
      [] OTHER -> NoValue   \* no User-Agent header

UserAgents == {"wechat", "browser", "absent"}

\* The routes behind the middleware's matcher '/api/:path*'
AuthRoutes ==
    {"blessingPOST", "profileGET", "profilePUT",
     "historyGET", "historyPOST", "historyDELETE"}

Routes == AuthRoutes \cup {"configGET"}

\* req.nextUrl.pathname of a route
Pathname(route) ==
    CASE route = "blessingPOST" ->  \* '/api/blessing'
            <<47, 97, 112, 105, 47, 98, 108, 101, 115, 115, 105, 110, 103>>
      [] route \in {"profileGET", "profilePUT"} ->  \* '/api/user/profile'
            <<47, 97, 112, 105, 47, 117, 115, 101, 114, 47, 112, 114, 111,
              102, 105, 108, 101>>
      [] route \in {"historyGET", "historyPOST", "historyDELETE"} ->
            \* '/api/user/history'
            <<47, 97, 112, 105, 47, 117, 115, 101, 114, 47, 104, 105, 115,
              116, 111, 114, 121>>
      [] route = "loginGET" ->  \* '/api/auth/wechat/login'
            <<47, 97, 112, 105, 47, 97, 117, 116, 104, 47, 119, 101, 99, 104,
              97, 116, 47, 108, 111, 103, 105, 110>>
      [] OTHER ->  \* '/api/config'
            <<47, 97, 112, 105, 47, 99, 111, 110, 102, 105, 103>>

\* '/api/blessing'
BLESSING_PREFIX ==
    <<47, 97, 112, 105, 47, 98, 108, 101, 115, 115, 105, 110, 103>>

\* 'Bearer '
BEARER == <<66, 101, 97, 114, 101, 114, 32>>

\* The gateway runs start one ms after the expiry of a token minted at 0.
GatewayStart == TOKEN_TTL + 1

\* 'attacker', a key that is not the server's
AttackerSecret == <<97, 116, 116, 97, 99, 107, 101, 114>>

\* The identity of the tokens requests carry: 'u2' / 'oA'
Holder == [userId |-> <<117, 50>>, openid |-> <<111, 65>>]

\* The token texts clients present, by name:
\*   fresh    minted one ms before GatewayStart, valid throughout
\*   old      minted at 0, expired before GatewayStart
\*   forged   the fresh payload signed with a key that is not the server's
\*   garbage  'not-a-token'
TokenText(name, env) ==
    CASE name = "fresh"   ->
            generateToken(Holder.userId, Holder.openid, TOKEN_TTL, env)
      [] name = "old"     ->
            generateToken(Holder.userId, Holder.openid, 0, env)
      [] name = "forged"  ->
            generateToken(Holder.userId, Holder.openid, TOKEN_TTL, AttackerSecret)
      [] name = "garbage" ->
            <<110, 111, 116, 45, 97, 45, 116, 111, 107, 101, 110>>
      [] OTHER -> NoValue

\* What a request carries as auth_token cookie and as Authorization header
\* ("none": not sent; the header is 'Bearer ' followed by the token)
Credentials ==
    { [cookie |-> "none",    authorization |-> "none"],
      [cookie |-> "fresh",   authorization |-> "none"],
      [cookie |-> "none",    authorization |-> "fresh"],
      [cookie |-> "old",     authorization |-> "none"],
      [cookie |-> "forged",  authorization |-> "none"],
      [cookie |-> "garbage", authorization |-> "fresh"] }

CookieValue(name, env) == TokenText(name, env)

AuthorizationHeader(name, env) ==
    IF name = "none" THEN NoValue ELSE BEARER \o TokenText(name, env)

\* The address information of a request: the forwarding chain of the proxy
\* header (client first) and the address of the direct connection ("" when
\* there is none)
ClientAddresses ==
    { [forwardedFor |-> <<"203.0.113.5", "70.41.3.18">>, remote |-> "70.41.3.18"],
      [forwardedFor |-> <<>>, remote |-> "203.0.113.5"],
      [forwardedFor |-> <<>>, remote |-> ""] }

NoLimit == [success |-> FALSE, limit |-> -1, remaining |-> -1, resetTime |-> -1,
            count |-> -1]
NoHeaders == [limit |-> -1, remaining |-> -1, reset |-> -1]
NoKey == <<"", -1>>

\* The body of a request, before the handler has read it
NoBody == [nickname |-> "unread", avatarUrl |-> "unread"]

\* No row of users: what a lookup leaves in 'user' when it finds none
NoUser == [id |-> NoValue]

\* The number of POST login requests in evaluation at the same time
MaxLogins == 2

LoginSlots == 1..MaxLogins

NoWechat == [errcode |-> 0, errmsg |-> "", openid |-> NoValue]

\* A slot no POST login request has arrived in
IdleLogin ==
    [pc |-> "idle", code |-> "", userInfo |-> "", wechatData |-> NoWechat,
     openid |-> NoValue, user |-> NoUser, found |-> FALSE, at |-> -1,
     status |-> 0, error |-> <<>>, token |-> NoValue, cookie |-> NoValue,
     calls |-> <<>>]

\* The empty tables
NoHistory == [rows |-> {}, issued |-> 0]

\* A slot no request has arrived in
IdleRequest ==
    [pc |-> "idle", ua |-> "", route |-> "", ip |-> "",
     credentials |-> [cookie |-> "unread", authorization |-> "unread"],
     key |-> NoKey, nth |-> 0, limitResult |-> NoLimit, threw |-> FALSE,
     decoded |-> [ok |-> FALSE], at |-> -1, body |-> NoBody,
     historyId |-> 0, generated |-> "", user |-> NoUser, blessing |-> "",
     status |-> 0, error |-> "", headers |-> NoHeaders, calls |-> <<>>]

(***************************************************************************)
(* The token service: Init and actions                                     *)
(***************************************************************************)
InitToken ==
    /\ now = 0
    /\ envSecret \in EnvSecrets
    /\ minted = NoToken
    /\ call = NoCall
    /\ reqs = [r \in Slots |-> IdleRequest]
    /\ counters = <<>>
    /\ admitCalls = <<>>
    /\ served = 0
    /\ passed = <<>>
    /\ users = <<>>
    /\ history = NoHistory
    /\ logins = [l \in LoginSlots |-> IdleLogin]

\* Time passes
Tick ==
    /\ call = NoCall
    /\ \E t \in ClockValues : t > now /\ now' = t
    /\ UNCHANGED <<envSecret, tokenVars, gatewayVars, storeVars>>

\* POST login reaches generateToken(user.id, openid).  The state keeps what
\* went into the token; MintedToken is the text the client holds.
Mint ==
    /\ call = NoCall
    /\ minted = NoToken
    /\ \E id \in Identities :
          minted' = [userId |-> id.userId,
                     openid |-> id.openid,
                     iat    |-> now,
                     exp    |-> now + TOKEN_TTL]
    /\ UNCHANGED <<now, envSecret, call, gatewayVars, storeVars>>

MintedToken ==
    generateToken(minted.userId, minted.openid, minted.iat, envSecret)

\* A route calls verifyToken on the token as it was minted
VerifyMinted ==
    /\ call = NoCall
    /\ minted # NoToken
    /\ call' = [kind   |-> "minted",
                pos    |-> 0,
                char   |-> 0,
                at     |-> now,
                result |-> verifyToken(MintedToken, now, envSecret)]
    /\ UNCHANGED <<now, envSecret, minted, gatewayVars, storeVars>>

\* The token with the character at position i replaced by c
Tampered(token, i, c) == [token EXCEPT ![i] = c]

\* A route calls verifyToken on the minted token with one character of one
\* of its three sections replaced by a different one
VerifyTampered ==
    /\ call = NoCall
    /\ minted # NoToken
    /\ \E token \in {MintedToken} :
       \E i \in 1..Len(token), c \in TamperChars :
          /\ token[i] # DOT
          /\ token[i] # c
          /\ call' = [kind   |-> "tampered",
                      pos    |-> i,
                      char   |-> c,
                      at     |-> now,
                      result |-> verifyToken(Tampered(token, i, c),
                                             now, envSecret)]
    /\ UNCHANGED <<now, envSecret, minted, gatewayVars, storeVars>>

\* Strings that do not split on '.' into three parts, by name: the empty
\* string, 'abc', 'a.b', 'a.b.c.d', and the minted token without its
\* signature, without its dots, and with '.x' appended
MalformedInputs ==
    {"empty", "word", "twoParts", "fourParts", "unsigned", "undotted",
     "extended"}

MalformedText(name, token) ==
    CASE name = "empty"     -> <<>>
      [] name = "word"      -> <<97, 98, 99>>
      [] name = "twoParts"  -> <<97, DOT, 98>>
      [] name = "fourParts" -> <<97, DOT, 98, DOT, 99, DOT, 100>>
      [] name = "unsigned"  ->
            LET parts == Split(token, DOT) IN parts[1] \o <<DOT>> \o parts[2]
      [] name = "undotted"  -> RemoveAllChar(token, DOT)
      [] OTHER              -> token \o <<DOT, 120>>

\* A route calls verifyToken on a string that is not three parts
VerifyMalformed ==
    /\ call = NoCall
    /\ minted # NoToken
    /\ \E name \in MalformedInputs :
       \E text \in {MalformedText(name, MintedToken)} :
          call' = [kind   |-> "malformed",
                   input  |-> name,
                   parts  |-> Len(Split(text, DOT)),
                   at     |-> now,
                   exit   |-> verifyTokenExit(text, now, envSecret),
                   result |-> verifyToken(text, now, envSecret)]
    /\ UNCHANGED <<now, envSecret, minted, gatewayVars, storeVars>>

\* The payloads a client writes into the minted token in place of its own,
\* by name: another identity ('a' / 'oZ'), an expiry one TTL later, an
\* expiry at 0, the text 'no' (not JSON), and nothing
PayloadRewrites ==
    {"otherIdentity", "laterExpiry", "expired", "notJson", "empty"}

RewrittenPayload(name, token) ==
    CASE name = "otherIdentity" ->
            toBase64Url(PayloadJson(<<97>>, <<111, 90>>, token.iat, token.exp))
      [] name = "laterExpiry" ->
            toBase64Url(PayloadJson(token.userId, token.openid, token.iat,
                                    token.exp + TOKEN_TTL))
      [] name = "expired" ->
            toBase64Url(PayloadJson(token.userId, token.openid, 0, 0))
      [] name = "notJson" -> toBase64Url(<<110, 111>>)
      [] OTHER -> <<>>

\* Who signed the rewritten token: nobody (the minted token's signature is
\* kept), a client with a key of its own, or the server's generateToken
Signers == {"kept", "attacker", "server"}

\* A route calls verifyToken on the minted token with its payload section
\* rewritten
VerifyRewritten ==
    /\ call = NoCall
    /\ minted # NoToken
    /\ \E name \in PayloadRewrites, signer \in Signers :
       \E parts \in {Split(MintedToken, DOT)} :
       \E payload \in {RewrittenPayload(name, minted)} :
       \E signature \in
            {CASE signer = "kept" -> parts[3]
               [] signer = "attacker" -> Sign(parts[1], payload, AttackerSecret)
               [] OTHER -> Sign(parts[1], payload, JWT_SECRET(envSecret))} :
       \E text \in {parts[1] \o <<DOT>> \o payload \o <<DOT>> \o signature} :
          call' = [kind    |-> "rewritten",
                   input   |-> name,
                   signer  |-> signer,
                   at      |-> now,
                   matched |-> signature =
                                 Sign(parts[1], payload, JWT_SECRET(envSecret)),
                   exit    |-> verifyTokenExit(text, now, envSecret),
                   result  |-> verifyToken(text, now, envSecret)]
    /\ UNCHANGED <<now, envSecret, minted, gatewayVars, storeVars>>

\* The characters a client puts in place of a signature character: 'A', 'B'
SignatureChars == {65, 66}

\* verifyToken compares the signature of the minted token, one character of
\* it replaced by a different one, with the signature it has recomputed
CompareSignature ==
    /\ call = NoCall
    /\ minted # NoToken
    /\ \E parts \in {Split(MintedToken, DOT)} :
       \E expectedSignature \in {Sign(parts[1], parts[2], JWT_SECRET(envSecret))} :
       \E i \in 1..Len(parts[3]), c \in SignatureChars :
       \E signature \in {Tampered(parts[3], i, c)} :
       \E work \in StrictNotEqualWork(signature, expectedSignature) :
          /\ parts[3][i] # c
          /\ call' = [kind     |-> "compared",
                      pos      |-> i,
                      char     |-> c,
                      length   |-> Len(expectedSignature),
                      mismatch |-> SignatureMismatch(signature, expectedSignature),
                      work     |-> work]
    /\ UNCHANGED <<now, envSecret, minted, gatewayVars, storeVars>>

\* verifyToken has returned to its caller
Return ==
    /\ call # NoCall
    /\ call' = NoCall
    /\ UNCHANGED <<now, envSecret, minted, gatewayVars, storeVars>>

NextToken ==
    \/ Tick
    \/ Mint
    \/ VerifyMinted
    \/ VerifyTampered
    \/ VerifyMalformed
    \/ VerifyRewritten
    \/ CompareSignature
    \/ Return

SpecToken == InitToken /\ [][NextToken]_vars

(***************************************************************************)
(* Properties of the token service                                         *)
(***************************************************************************)
\* The section (1 header, 2 payload, 3 signature) position i of a token is in
SectionOf(token, i) ==
    1 + Cardinality({j \in 1..(i - 1) : token[j] = DOT})

\* C1 - round trip: a minted token, verified at any instant strictly before
\* its expiresAt under the same secret, is accepted and verifyToken returns
\* exactly the userId and openid that were minted into it.
C1_RoundTrip ==
    (call.kind = "minted" /\ call.at < minted.exp)
        => call.result = [ok |-> TRUE, userId |-> minted.userId,
                          openid |-> minted.openid]

\* C1 witness: the token of an identity JSON has to escape, accepted one ms
\* before it expires, days after it was minted.
C1_Witness ==
    /\ call.kind = "minted"
    /\ call.at = minted.exp - 1
    /\ call.at > minted.iat
    /\ QUOTE \in {minted.userId[i] : i \in 1..Len(minted.userId)}
    /\ call.result.ok
    /\ call.result.userId = minted.userId

\* C2 - tamper rejection: a minted token with one character of its header,
\* payload or signature replaced by a different character is never accepted.
C2_TamperRejected ==
    call.kind = "tampered" => ~call.result.ok

\* C2 witness: a token tampered in its payload section, presented while the
\* original is still valid, has been rejected.
C2_Witness ==
    /\ call.kind = "tampered"
    /\ SectionOf(MintedToken, call.pos) = 2
    /\ call.at < minted.exp
    /\ ~call.result.ok

\* C3 - expiry boundary (the claim as stated): a correctly signed token is
\* rejected whenever the verifier's time is >= its expiresAt, the instant
\* now = expiresAt included.
C3_RejectedFromExpiry ==
    (call.kind = "minted" /\ call.at >= minted.exp) => ~call.result.ok

\* C12 - shape check: verifyToken rejects every string that does not split
\* on '.' into exactly three parts, by the part count alone (no signature is
\* computed or compared), and the caller gets the rejection, not an error.
C12_ShapeCheck ==
    (call.kind = "malformed" /\ call.parts # 3)
        => (call.result = Rejected /\ call.exit = "shape")

\* C12 witness: the minted token with a fourth part appended, rejected on
\* its part count before its (valid) signature is looked at.
C12_Witness ==
    /\ call.kind = "malformed"
    /\ call.input = "extended"
    /\ call.parts = 4
    /\ call.at < minted.exp
    /\ call.exit = "shape"
    /\ ~call.result.ok

\* C13 - no default key: whenever a token has been minted or is being
\* verified, the key in use is the configured secret, never a built-in one.
C13_NoDefaultKey ==
    (minted # NoToken \/ call # NoCall)
        => (envSecret # NoValue /\ JWT_SECRET(envSecret) = envSecret)

\* A verifyToken call on the minted token that rejects it
RejectsMinted == call.kind = "minted" /\ ~call.result.ok

\* C18 - expired is terminal: once verifyToken has rejected the minted token
\* as expired, every later call on it rejects it too; the token is never
\* changed or invalidated by the server after it is minted.
C18_ExpiredIsTerminal ==
    /\ [](RejectsMinted => [](call.kind = "minted" => ~call.result.ok))
    /\ [][minted # NoToken => minted' = minted]_vars

\* C18 witness: the minted token rejected by a call two ms after its expiry,
\* one ms after the first instant at which it is rejected.
C18_Witness ==
    /\ call.kind = "minted"
    /\ call.at = minted.exp + 2
    /\ ~call.result.ok

\* C23 - constant-time comparison: comparing a transmitted signature that
\* differs from the recomputed one in one character examines every character
\* of the signature, wherever the difference is.
C23_ConstantTimeComparison ==
    call.kind = "compared" => call.work = call.length

\* C25 - signature before payload: verifyToken reaches the payload (its
\* parsing, its expiry, its identity fields) only for a token whose signature
\* equals the recomputed one; a token whose signature differs is rejected at
\* the comparison, whatever its payload section holds.
C25_SignatureBeforePayload ==
    call.kind = "rewritten" =>
        /\ ~call.matched => (call.exit = "signature" /\ call.result = Rejected)
        /\ call.exit \in {"parse", "expired", "return"} => call.matched
        /\ call.signer \in {"kept", "attacker"} => ~call.matched

\* C25 witness: the minted token with an expiry one TTL later written into
\* its payload and its signature kept, presented after the minted expiry and
\* before the expiry it claims, rejected at the signature comparison.
C25_Witness ==
    /\ call.kind = "rewritten"
    /\ call.input = "laterExpiry"
    /\ call.signer = "kept"
    /\ call.at > minted.exp
    /\ call.at < minted.exp + TOKEN_TTL
    /\ call.exit = "signature"
    /\ ~call.result.ok

(***************************************************************************)
(* Gateway: the functions of the middleware and of the route handlers      *)
(***************************************************************************)
\* str.includes(sub)
Includes(str, sub) ==
    \E i \in 1..(Len(str) - Len(sub) + 1) :
        SubSeq(str, i, i + Len(sub) - 1) = sub

\* str.startsWith(prefix)
StartsWith(str, prefix) ==
    Len(str) >= Len(prefix) /\ SubSeq(str, 1, Len(prefix)) = prefix

\* str.replace(sub, ''): the first occurrence of sub removed
RemoveFirst(str, sub) ==
    LET hits == {i \in 1..(Len(str) - Len(sub) + 1) :
                    SubSeq(str, i, i + Len(sub) - 1) = sub}
    IN  IF hits = {} THEN str
        ELSE LET i == CHOOSE h \in hits : \A j \in hits : h <= j
             IN  SubSeq(str, 1, i - 1) \o SubSeq(str, i + Len(sub), Len(str))

\* The middleware's client-type check letting every client through
isWeChatMiniProgram_any(userAgent) == TRUE

\* isWeChatMiniProgram(userAgent)
isWeChatMiniProgram(userAgent) == Includes(userAgent, MICRO_MESSENGER)

\* The path check with a prefix no route has: '/api/blessings'
IsRateLimited_typo(pathname) == StartsWith(pathname, BLESSING_PREFIX \o <<115>>)

\* req.nextUrl.pathname.startsWith("/api/blessing")
\* Variant: the limiter guards every path under '/api/'
IsRateLimited_everyRoute(pathname) ==
    StartsWith(pathname, <<47, 97, 112, 105, 47>>)

IsRateLimited(pathname) == StartsWith(pathname, BLESSING_PREFIX)

\* cookies.get('auth_token')?.value
\*   || headers.get('authorization')?.replace('Bearer ', '')
ExtractToken(cookie, authorization) ==
    IF cookie # NoValue THEN cookie
    ELSE IF authorization = NoValue THEN NoValue
    ELSE RemoveFirst(authorization, BEARER)

\* The forwarding header as a chain of addresses: its pieces between commas
\* and blanks, in order
IsSeparator(c) == c \in {44, 32}

ForwardedChain(header) ==
    LET starts == {i \in 1..Len(header) :
                      /\ ~IsSeparator(header[i])
                      /\ (i = 1 \/ IsSeparator(header[i - 1]))}
        start(k) == CHOOSE i \in starts :
                        Cardinality({j \in starts : j <= i}) = k
        end(i)   == CHOOSE e \in i..Len(header) :
                        /\ \A j \in i..e : ~IsSeparator(header[j])
                        /\ (e = Len(header) \/ IsSeparator(header[e + 1]))
    IN  [k \in 1..Cardinality(starts) |->
            SubSeq(header, start(k), end(start(k)))]

\* The resolver taking the last address of the chain, the nearest proxy
getClientIP_last(forwardedFor, remote) ==
    IF forwardedFor # <<>> THEN forwardedFor[Len(forwardedFor)]
    ELSE IF remote # "" THEN remote
    ELSE "unknown"

\* getClientIP(req): the first address of the forwarding chain, else the
\* address of the direct connection, else a fixed fallback identity
getClientIP(forwardedFor, remote) ==
    IF forwardedFor # <<>> THEN forwardedFor[1]
    ELSE IF remote # "" THEN remote
    ELSE "unknown"

\* The fixed window an instant falls in, and the instant that window ends
Bucket(t) == t \div WINDOW_MS
BucketEnd(t) == (Bucket(t) + 1) * WINDOW_MS

\* The store key of a client address in the window of instant t
RateKey(ip, t) == <<ip, Bucket(t)>>

\* The store's atomic increment: the counter of key goes up by one; a key the
\* store does not hold starts at 1 and expires when its window ends
Increment(store, key, t) ==
    [k \in (DOMAIN store) \cup {key} |->
        IF k # key THEN store[k]
        ELSE IF key \in DOMAIN store
             THEN [store[key] EXCEPT !.count = @ + 1]
             ELSE [count |-> 1, expiresAt |-> BucketEnd(t)]]

\* The store drops the keys whose expiry has elapsed
Unexpired(store, t) ==
    [k \in {x \in DOMAIN store : store[x].expiresAt > t} |-> store[k]]

\* checkRateLimit: the decision for the post-increment count
Decision(count, t) ==
    [success   |-> count <= MAX_REQUESTS,
     limit     |-> MAX_REQUESTS,
     remaining |-> IF MAX_REQUESTS - count > 0 THEN MAX_REQUESTS - count ELSE 0,
     resetTime |-> BucketEnd(t),
     count     |-> count]

\* The middleware ignoring the decision
Rejects_never(limitResult) == FALSE

\* The middleware reading the decision the wrong way round
Rejects_inverted(limitResult) == limitResult.success

\* middleware: if (!limitResult.success) the request is answered 429
Rejects(limitResult) == ~limitResult.success

\* The catch block failing open
OnLimiterError_failOpen == "forward"

\* middleware: what the catch block around the limiter does with the request
\* ("reject": answer 503, "forward": let it through)
OnLimiterError == "reject"

\* The headers with the limit written where the remaining count belongs
RateLimitHeaders_limitAsRemaining(limitResult) ==
    [limit     |-> limitResult.limit,
     remaining |-> limitResult.limit,
     reset     |-> limitResult.resetTime]

\* The headers without X-RateLimit-Reset
RateLimitHeaders_noReset(limitResult) ==
    [limit     |-> limitResult.limit,
     remaining |-> limitResult.remaining,
     reset     |-> -1]

\* The headers with the remaining count and the reset instant swapped
RateLimitHeaders_swapped(limitResult) ==
    [limit     |-> limitResult.limit,
     remaining |-> limitResult.resetTime,
     reset     |-> limitResult.remaining]

\* The rate-limit response headers of a decision
RateLimitHeaders(limitResult) ==
    [limit     |-> limitResult.limit,
     remaining |-> limitResult.remaining,
     reset     |-> limitResult.resetTime]

Respond(q, status, error) ==
    [q EXCEPT !.pc = "done", !.status = status, !.error = error]

Called(q, name) == [q EXCEPT !.calls = Append(@, name)]

\* Messages, by what they say:
\*   WECHAT_ONLY          the application only supports the WeChat mini program
\*   NOT_LOGGED_IN        user not logged in
\*   SESSION_EXPIRED      login has expired
\*   TOO_FREQUENT         requests too frequent
\*   SERVICE_UNAVAILABLE  service temporarily unavailable, retry later
\*   GENERATE_FAILED      generation failed, retry
\*   USER_NOT_FOUND       user does not exist
\*   INVALID_INPUT        a validation message of the route
\*   ROUTE_FAILED         the route's own failure message (status 500)

\* The authentication prefix every auth-required handler starts with, as the
\* request it leaves: 401 without a token, 401 for a token verifyToken
\* rejects, else on to the handler's body with the decoded identity.  The
\* blessing handler checks the User-Agent first.
Authenticate(q, c, t, env, next) ==
    LET token == ExtractToken(CookieValue(c.cookie, env),
                              AuthorizationHeader(c.authorization, env))
        seen  == [Called(q, "handler") EXCEPT !.credentials = c]
    IN
    IF q.route = "blessingPOST"
       /\ ~Includes(UserAgentText(q.ua), MICRO_MESSENGER)
    THEN Respond(Called(q, "handler"), 403, "WECHAT_ONLY")
    ELSE IF token = NoValue THEN Respond(seen, 401, "NOT_LOGGED_IN")
    ELSE LET decoded == verifyToken(token, t, env) IN
         IF ~decoded.ok
         THEN Respond(Called(seen, "verifyToken"), 401, "SESSION_EXPIRED")
         ELSE [Called(seen, "verifyToken") EXCEPT !.pc = next,
                                                   !.decoded = decoded]

(***************************************************************************)
(* Gateway: Init and actions                                               *)
(***************************************************************************)
\* The instants of a gateway run: its start, then the ms before and the
\* first ms of each following window
GatewayClock ==
    {GatewayStart} \cup
    UNION { {BucketEnd(GatewayStart) + (k - 1) * WINDOW_MS - 1,
             BucketEnd(GatewayStart) + (k - 1) * WINDOW_MS} : k \in 1..MaxWindows }

Init ==
    /\ now = GatewayStart
    /\ envSecret \in EnvSecrets
    /\ minted = NoToken
    /\ call = NoCall
    /\ reqs = [r \in Slots |-> IdleRequest]
    /\ counters = <<>>
    /\ admitCalls = <<>>
    /\ served = 0
    /\ passed = <<>>
    /\ users = <<>>
    /\ history = NoHistory
    /\ logins = [l \in LoginSlots |-> IdleLogin]

\* Time passes; the store drops the windows that have ended
GatewayTick ==
    /\ \E t \in GatewayClock :
          /\ t > now
          /\ now' = t
          /\ counters' = Unexpired(counters, t)
    /\ UNCHANGED <<envSecret, tokenVars, reqs, admitCalls, served, passed, storeVars>>

\* A request matched by '/api/:path*' arrives in slot r
ArriveWith(r, uas, routes) ==
    /\ reqs[r].pc = "idle"
    /\ \E ua \in uas, route \in routes :
          reqs' = [reqs EXCEPT ![r] =
                      [IdleRequest EXCEPT !.pc = "middleware",
                                          !.ua = ua, !.route = route]]
    /\ served' = served + 1
    /\ UNCHANGED <<now, envSecret, tokenVars, counters, admitCalls, passed, storeVars>>

\* middleware(req) up to its await: the client-type check, the path check
\* and, for the blessing API, getClientIP and the call of checkRateLimit
Middleware(r) ==
    /\ reqs[r].pc = "middleware"
    /\ LET q == reqs[r] IN
       IF ~isWeChatMiniProgram(UserAgentText(q.ua))
       THEN reqs' = [reqs EXCEPT ![r] = Respond(q, 403, "WECHAT_ONLY")]
       ELSE IF ~IsRateLimited(Pathname(q.route))
       THEN reqs' = [reqs EXCEPT ![r] = [q EXCEPT !.pc = "route"]]
       ELSE \E a \in ClientAddresses :
              reqs' = [reqs EXCEPT ![r] =
                  [Called(Called(q, "getClientIP"), "checkRateLimit")
                      EXCEPT !.pc = "limit",
                             !.ip = getClientIP(a.forwardedFor, a.remote)]]
    /\ UNCHANGED <<now, envSecret, tokenVars, counters, admitCalls, served, passed, storeVars>>

\* The checkRateLimit calls that have returned so far for a window, a pair
\* of a client address and a bucket index
CallsUnder(window) ==
    IF window \in DOMAIN admitCalls THEN admitCalls[window] ELSE 0

\* The requests of an address the middleware has let through at an instant
PassedAt(moment) == IF moment \in DOMAIN passed THEN passed[moment] ELSE 0

\* checkRateLimit returns: the store has counted the request in the window
\* of this instant, and the middleware answers 429 or lets the request
\* through, with the rate-limit headers either way
RateLimitReturns(r) ==
    /\ reqs[r].pc = "limit"
    /\ LET q      == reqs[r]
           key    == RateKey(q.ip, now)
           store  == Increment(counters, key, now)
           result == Decision(store[key].count, now)
           window == <<q.ip, Bucket(now)>>
           seen   == [q EXCEPT !.key = key, !.nth = CallsUnder(window) + 1,
                               !.limitResult = result, !.at = now,
                               !.headers = RateLimitHeaders(result)]
       IN  /\ counters' = store
           /\ admitCalls' = [k \in (DOMAIN admitCalls) \cup {window} |->
                                IF k = window THEN CallsUnder(window) + 1
                                ELSE admitCalls[k]]
           /\ reqs' = [reqs EXCEPT ![r] =
                 IF Rejects(result)
                 THEN Respond(seen, 429, "TOO_FREQUENT")
                 ELSE [seen EXCEPT !.pc = "route"]]
    /\ UNCHANGED <<now, envSecret, tokenVars, served, passed, storeVars>>

\* What the catch block leaves of request q
Caught(q) ==
    IF OnLimiterError = "reject"
    THEN Respond([q EXCEPT !.threw = TRUE], 503, "SERVICE_UNAVAILABLE")
    ELSE [q EXCEPT !.threw = TRUE, !.pc = "route"]

\* getClientIP throws inside the middleware's try block
ClientIPThrows(r) ==
    /\ reqs[r].pc = "middleware"
    /\ isWeChatMiniProgram(UserAgentText(reqs[r].ua))
    /\ IsRateLimited(Pathname(reqs[r].route))
    /\ reqs' = [reqs EXCEPT ![r] = Caught(Called(reqs[r], "getClientIP"))]
    /\ UNCHANGED <<now, envSecret, tokenVars, counters, admitCalls, served, passed, storeVars>>

\* checkRateLimit throws (the store is unreachable or timed out): the
\* middleware's catch block answers
RateLimitThrows(r) ==
    /\ reqs[r].pc = "limit"
    /\ reqs' = [reqs EXCEPT ![r] = Caught(reqs[r])]
    /\ UNCHANGED <<now, envSecret, tokenVars, counters, admitCalls, served, passed, storeVars>>

\* A handler's authentication prefix, on the request the middleware let through
HandlerEntry(r, route, next) ==
    /\ reqs[r].pc = "route"
    /\ reqs[r].route = route
    /\ \E c \in Credentials :
          reqs' = [reqs EXCEPT ![r] = Authenticate(reqs[r], c, now, envSecret, next)]
    /\ UNCHANGED <<now, envSecret, tokenVars, counters, admitCalls, served, passed, storeVars>>

BlessingPOST(r)  == HandlerEntry(r, "blessingPOST", "body")
ProfileGET(r)    == HandlerEntry(r, "profileGET", "rest")
ProfilePUT(r)    == HandlerEntry(r, "profilePUT", "rest")
HistoryGET(r)    == HandlerEntry(r, "historyGET", "rest")
HistoryPOST(r)   == HandlerEntry(r, "historyPOST", "rest")
HistoryDELETE(r) == HandlerEntry(r, "historyDELETE", "rest")

\* GET /api/config: the client-type check, then the UI configuration
ConfigGET(r) ==
    /\ reqs[r].pc = "route"
    /\ reqs[r].route = "configGET"
    /\ reqs' = [reqs EXCEPT ![r] =
          IF ~Includes(UserAgentText(reqs[r].ua), MICRO_MESSENGER)
          THEN Respond(Called(reqs[r], "handler"), 403, "WECHAT_ONLY")
          ELSE Respond(Called(reqs[r], "handler"), 200, "")]
    /\ UNCHANGED <<now, envSecret, tokenVars, counters, admitCalls, served, passed, storeVars>>

\* POST /api/blessing after authentication: the body is parsed and
\* validated, and generateBlessing is called on the prompt
BlessingBody(r) ==
    /\ reqs[r].pc = "body"
    /\ \E body \in {"unparsable", "invalid", "valid"} :
          reqs' = [reqs EXCEPT ![r] =
              CASE body = "unparsable" -> Respond(reqs[r], 500, "GENERATE_FAILED")
                [] body = "invalid"    ->
                      Respond(Called(reqs[r], "validateInput"),
                              400, "INVALID_INPUT")
                [] OTHER ->
                      [Called(Called(reqs[r], "validateInput"), "generateBlessing")
                          EXCEPT !.pc = "generating"]]
    /\ UNCHANGED <<now, envSecret, tokenVars, counters, admitCalls, served, passed, storeVars>>

\* generateBlessing returns or throws; after a blessing the user is looked
\* up and, when found, the history record inserted, and the answer is 200
\* whatever the bookkeeping did
BlessingFinish(r) ==
    /\ reqs[r].pc = "generating"
    /\ \E outcome \in {"throttled", "failed", "userMissing", "recorded"} :
          reqs' = [reqs EXCEPT ![r] =
              CASE outcome = "throttled" -> Respond(reqs[r], 500, "TOO_FREQUENT")
                [] outcome = "failed"    -> Respond(reqs[r], 500, "GENERATE_FAILED")
                [] outcome = "userMissing" ->
                      Respond(Called(reqs[r], "users"), 200, "")
                [] OTHER ->
                      Respond(Called(Called(reqs[r], "users"), "history"),
                              200, "")]
    /\ UNCHANGED <<now, envSecret, tokenVars, counters, admitCalls, served, passed, storeVars>>

\* The profile and history handlers after authentication: input the
\* handler refuses (400, where the handler validates before it looks the
\* user up), an unknown user (404), a failure (500) or success (200)
HandlerRest(r) ==
    /\ reqs[r].pc = "rest"
    /\ \E outcome \in {"refused", "notFound", "failed", "ok"} :
          /\ outcome = "refused" =>
                 reqs[r].route \in {"profilePUT", "historyPOST", "historyDELETE"}
          /\ reqs' = [reqs EXCEPT ![r] =
              CASE outcome = "refused"  -> Respond(reqs[r], 400, "INVALID_INPUT")
                [] outcome = "notFound" ->
                      Respond(Called(reqs[r], "users"), 404, "USER_NOT_FOUND")
                [] outcome = "failed"   ->
                      Respond(Called(reqs[r], "users"), 500, "ROUTE_FAILED")
                [] OTHER -> Respond(Called(reqs[r], "users"), 200, "")]
    /\ UNCHANGED <<now, envSecret, tokenVars, counters, admitCalls, served, passed, storeVars>>

(***************************************************************************)
(* Spec: requests evaluated one after the other, through the middleware    *)
(* and the handler of their route.  Evaluations share nothing but the      *)
(* rate-limit store, whose counts the earlier requests have left behind.   *)
(***************************************************************************)
\* The slot of the request in evaluation: the lowest
One == CHOOSE r \in Slots : \A s \in Slots : r <= s

Arrive ==
    /\ served < MaxServed
    /\ ArriveWith(One, UserAgents, Routes)

\* The response has been sent; the next request may arrive
Retire ==
    /\ reqs[One].pc = "done"
    /\ reqs' = [reqs EXCEPT ![One] = IdleRequest]
    /\ UNCHANGED <<now, envSecret, tokenVars, counters, admitCalls, served, passed, storeVars>>

Next ==
    \/ GatewayTick
    \/ Arrive
    \/ Retire
    \/ Middleware(One)
    \/ ClientIPThrows(One)
    \/ RateLimitReturns(One)
    \/ RateLimitThrows(One)
    \/ BlessingPOST(One)
    \/ ProfileGET(One)
    \/ ProfilePUT(One)
    \/ HistoryGET(One)
    \/ HistoryPOST(One)
    \/ HistoryDELETE(One)
    \/ ConfigGET(One)
    \/ BlessingBody(One)
    \/ BlessingFinish(One)
    \/ HandlerRest(One)

Spec == Init /\ [][Next]_vars

(***************************************************************************)
(* SpecConcurrent: MaxRequests requests to the blessing API in the         *)
(* middleware at the same time, up to the point where the middleware       *)
(* answers or hands the request to the route.                              *)
(***************************************************************************)
ArriveConcurrent(r) ==
    /\ \A s \in Slots : s < r => reqs[s].pc # "idle"
    /\ ArriveWith(r, {"wechat", "browser"}, {"blessingPOST"})

NextConcurrent ==
    \/ GatewayTick
    \/ \E r \in Slots :
          \/ ArriveConcurrent(r)
          \/ Middleware(r)
          \/ ClientIPThrows(r)
          \/ RateLimitReturns(r)
          \/ RateLimitThrows(r)

SpecConcurrent == Init /\ [][NextConcurrent]_vars

(***************************************************************************)
(* SpecHandlers: the route handlers called on their own, as the tests call *)
(* them, with GET /api/auth/wechat/login among them and the body of        *)
(* PUT /api/user/profile spelled out.                                      *)
(***************************************************************************)
\* The routes whose handler starts by reading the token
TokenRoutes == AuthRoutes \cup {"loginGET"}

\* GET /api/auth/wechat/login: the token is read from the cookie alone; the
\* user is then looked up by the openid of the token
LoginGET(r) ==
    /\ reqs[r].pc = "route"
    /\ reqs[r].route = "loginGET"
    /\ \E c \in Credentials, outcome \in {"notFound", "failed", "ok"} :
          LET token == CookieValue(c.cookie, envSecret)
              seen  == [Called(reqs[r], "handler") EXCEPT !.credentials = c]
          IN  reqs' = [reqs EXCEPT ![r] =
                IF token = NoValue
                THEN Respond(seen, 401, "NOT_LOGGED_IN")
                ELSE LET decoded == verifyToken(token, now, envSecret)
                         known   == [Called(Called(seen, "verifyToken"), "users")
                                        EXCEPT !.decoded = decoded]
                     IN  IF ~decoded.ok
                         THEN Respond(Called(seen, "verifyToken"),
                                      401, "SESSION_EXPIRED")
                         ELSE CASE outcome = "notFound" ->
                                      Respond(known, 404, "USER_NOT_FOUND")
                                [] outcome = "failed" ->
                                      Respond(known, 500, "ROUTE_FAILED")
                                [] OTHER -> Respond(known, 200, "")]
    /\ UNCHANGED <<now, envSecret, tokenVars, counters, admitCalls, served, passed, storeVars>>

\* The length limits of PUT /api/user/profile
NICKNAME_MAX == 100
AVATAR_URL_MAX == 500

\* A string of n characters 'x'
Xs(n) == [i \in 1..n |-> 120]

\* The values the nickname and avatarUrl of a body may have, by name, as
\* JSON values: a field the body lacks is undefined
JsonUndefined == [type |-> "undefined"]

JsonText(text) == [type |-> "string", text |-> text]

NicknameValue(name) ==
    CASE name = "absent"  -> JsonUndefined
      [] name = "null"    -> [type |-> "null"]
      [] name = "number"  -> [type |-> "number"]
      [] name = "empty"   -> JsonText(<<>>)
      [] name = "blank"   -> JsonText(<<32, 9, 32>>)
      [] name = "padded"  -> JsonText(<<32>> \o Xs(3) \o <<32>>)
      [] name = "longest" -> JsonText(Xs(NICKNAME_MAX))
      [] name = "tooLong" -> JsonText(Xs(NICKNAME_MAX + 1))
      [] OTHER            ->  \* "paddedTooLong": too long only with its blanks
            JsonText(Xs(NICKNAME_MAX - 1) \o <<32, 32>>)

Nicknames ==
    {"absent", "null", "number", "empty", "blank", "padded", "longest",
     "tooLong", "paddedTooLong"}

AvatarUrlValue(name) ==
    CASE name = "absent"  -> JsonUndefined
      [] name = "number"  -> [type |-> "number"]
      [] name = "empty"   -> JsonText(<<>>)
      [] name = "longest" -> JsonText(Xs(AVATAR_URL_MAX))
      [] OTHER            -> JsonText(Xs(AVATAR_URL_MAX + 1))  \* "tooLong"

AvatarUrls == {"absent", "number", "empty", "longest", "tooLong"}

\* String.prototype.trim, on the white space of ASCII
IsSpace(c) == c \in {9, 10, 11, 12, 13, 32}

Trim(str) ==
    LET kept == {i \in 1..Len(str) : ~IsSpace(str[i])} IN
    IF kept = {} THEN <<>>
    ELSE SubSeq(str, CHOOSE i \in kept : \A j \in kept : i <= j,
                     CHOOSE i \in kept : \A j \in kept : i >= j)

\* The nickname check without the length limit
NicknameRefused_noLimit(nickname) ==
    /\ nickname # JsonUndefined
    /\ \/ nickname.type # "string"
       \/ Len(Trim(nickname.text)) = 0

\* nickname !== undefined && (typeof nickname !== 'string'
\*   || nickname.trim().length === 0 || nickname.length > 100)
NicknameRefused(nickname) ==
    /\ nickname # JsonUndefined
    /\ \/ nickname.type # "string"
       \/ Len(Trim(nickname.text)) = 0
       \/ Len(nickname.text) > NICKNAME_MAX

\* avatarUrl !== undefined
\*   && (typeof avatarUrl !== 'string' || avatarUrl.length > 500)
AvatarUrlRefused(avatarUrl) ==
    /\ avatarUrl # JsonUndefined
    /\ \/ avatarUrl.type # "string"
       \/ Len(avatarUrl.text) > AVATAR_URL_MAX

\* updateData: the fields to update, nickname trimmed
UpdateData(nickname, avatarUrl) ==
    [k \in {x \in {"nickname", "avatar_url"} :
               \/ x = "nickname" /\ nickname # JsonUndefined
               \/ x = "avatar_url" /\ avatarUrl # JsonUndefined}
       |-> IF k = "nickname" THEN Trim(nickname.text) ELSE avatarUrl.text]

\* PUT /api/user/profile after authentication: the body is parsed (a body
\* that is no JSON throws into the catch block) and validated, and the
\* update is issued to the user store, which answers or fails
ProfilePutBody(r) ==
    /\ reqs[r].pc = "rest"
    /\ reqs[r].route = "profilePUT"
    /\ \/ reqs' = [reqs EXCEPT ![r] = Respond(reqs[r], 500, "ROUTE_FAILED")]
       \/ \E n \in Nicknames, a \in AvatarUrls, outcome \in {"failed", "ok"} :
             LET nickname  == NicknameValue(n)
                 avatarUrl == AvatarUrlValue(a)
                 q == [reqs[r] EXCEPT !.body = [nickname |-> n, avatarUrl |-> a]]
             IN  reqs' = [reqs EXCEPT ![r] =
                   IF NicknameRefused(nickname)
                   THEN Respond(q, 400, "NICKNAME_INVALID")
                   ELSE IF AvatarUrlRefused(avatarUrl)
                   THEN Respond(q, 400, "AVATAR_URL_INVALID")
                   ELSE IF DOMAIN UpdateData(nickname, avatarUrl) = {}
                   THEN Respond(q, 400, "NO_FIELDS")
                   ELSE IF outcome = "failed"
                   THEN Respond(Called(q, "users.update"), 500, "UPDATE_FAILED")
                   ELSE Respond(Called(q, "users.update"), 200, "")]
    /\ UNCHANGED <<now, envSecret, tokenVars, counters, admitCalls, served, passed, storeVars>>

\* The other profile and history handlers after authentication
HandlerRestOther(r) ==
    /\ reqs[r].route # "profilePUT"
    /\ HandlerRest(r)

\* A handler is called with a request of the supported client
Deliver ==
    /\ served < MaxServed
    /\ reqs[One].pc = "idle"
    /\ \E route \in TokenRoutes :
          reqs' = [reqs EXCEPT ![One] =
                      [IdleRequest EXCEPT !.pc = "route", !.ua = "wechat",
                                          !.route = route]]
    /\ served' = served + 1
    /\ UNCHANGED <<now, envSecret, tokenVars, counters, admitCalls, passed, storeVars>>

NextHandlers ==
    \/ GatewayTick
    \/ Deliver
    \/ Retire
    \/ BlessingPOST(One)
    \/ ProfileGET(One)
    \/ ProfilePUT(One)
    \/ HistoryGET(One)
    \/ HistoryPOST(One)
    \/ HistoryDELETE(One)
    \/ LoginGET(One)
    \/ BlessingBody(One)
    \/ BlessingFinish(One)
    \/ HandlerRestOther(One)
    \/ ProfilePutBody(One)

SpecHandlers == Init /\ [][NextHandlers]_vars

(***************************************************************************)
(* SpecLimiter: requests of the supported client to the blessing API, one  *)
(* after the other through the middleware, with the instants at which the  *)
(* middleware let a request through kept as history.                       *)
(***************************************************************************)
\* The number of requests a run of SpecLimiter sends
MaxBurst == 5

ArriveLimited ==
    /\ served < MaxBurst
    /\ ArriveWith(One, {"wechat"}, {"blessingPOST"})

\* The route takes over the request the middleware let through
HandOver ==
    /\ reqs[One].pc = "route"
    /\ LET moment == <<reqs[One].ip, reqs[One].at>> IN
       passed' = [k \in (DOMAIN passed) \cup {moment} |->
                     IF k = moment THEN PassedAt(moment) + 1 ELSE passed[k]]
    /\ reqs' = [reqs EXCEPT ![One] = IdleRequest]
    /\ UNCHANGED <<now, envSecret, tokenVars, counters, admitCalls, served, storeVars>>

NextLimiter ==
    \/ GatewayTick
    \/ ArriveLimited
    \/ Middleware(One)
    \/ ClientIPThrows(One)
    \/ RateLimitReturns(One)
    \/ RateLimitThrows(One)
    \/ HandOver
    \/ Retire

SpecLimiter == Init /\ [][NextLimiter]_vars

(***************************************************************************)
(* SpecResolver: getClientIP on the forwarding headers of up to            *)
(* MaxHeaderLen characters over two address characters, ',' and ' '.       *)
(***************************************************************************)
MaxHeaderLen == 4

\* '1', '2', ',' and ' '
HeaderChars == {49, 50, 44, 32}

ForwardingHeaders ==
    UNION { [1..n -> HeaderChars] : n \in 0..MaxHeaderLen }

\* The address of the direct connection ("" when there is none)
RemoteAddresses == {"", "198.51.100.7"}

\* The middleware calls getClientIP(req)
Resolve ==
    /\ call = NoCall
    /\ \E header \in ForwardingHeaders, remote \in RemoteAddresses :
          call' = [kind   |-> "resolve",
                   header |-> header,
                   remote |-> remote,
                   result |-> getClientIP(ForwardedChain(header), remote)]
    /\ UNCHANGED <<now, envSecret, minted, gatewayVars, storeVars>>

NextResolver == Resolve \/ Return

SpecResolver == InitToken /\ [][NextResolver]_vars

(***************************************************************************)
(* The store: the tables users and user_history behind userDb, historyDb   *)
(* and the supabase client                                                 *)
(***************************************************************************)
\* gen_random_uuid() for the n-th row inserted into users: 'u1', 'u2', ...
UserId(n) == <<117, 48 + n>>

\* The openid of a registered user that is not the holder of the tokens
\* ('oB'), and an openid no row of users holds ('oN')
OtherOpenid == <<111, 66>>
UnseenOpenid == <<111, 78>>

\* A row of users inserted at instant t (created_at and last_login_at
\* default to NOW())
UserRow(id, openid, nickname, avatar_url, t) ==
    [id |-> id, openid |-> openid, nickname |-> nickname,
     avatar_url |-> avatar_url, created_at |-> t, last_login_at |-> t]

\* The users registered before the run: 'u1' / 'oB' and the holder of the
\* tokens, 'u2' / 'oA'
OtherRow == UserRow(UserId(1), OtherOpenid, "other", "other.png", 0)
HolderRow == UserRow(Holder.userId, Holder.openid, "holder", "holder.png", 0)

\* The indices of the rows with an openid
RowsWith(rows, openid) == {i \in 1..Len(rows) : rows[i].openid = openid}

\* from(users).select('*').eq('openid', openid).single(): the row, or no
\* data with error PGRST116 when the rows matched are not exactly one
SelectSingle(rows, openid) ==
    IF Cardinality(RowsWith(rows, openid)) = 1
    THEN rows[CHOOSE i \in RowsWith(rows, openid) : TRUE]
    ELSE NoUser

\* from('users').select('id').eq('openid', openid).single(): the id alone
SelectIdSingle(rows, openid) ==
    IF SelectSingle(rows, openid) = NoUser THEN NoUser
    ELSE [id |-> SelectSingle(rows, openid).id]

\* userDb.getUserByOpenid(openid), when the store answers: PGRST116 is not
\* thrown, the data is returned
getUserByOpenid(rows, openid) == SelectSingle(rows, openid)

\* Variant: users.openid without its UNIQUE constraint
OpenidTaken_never(rows, openid) == FALSE

\* openid VARCHAR(64) UNIQUE NOT NULL: an insert with an openid a row holds
\* is refused
OpenidTaken(rows, openid) == RowsWith(rows, openid) # {}

\* userDb.createUser(userData) at instant t: the insert, and the row it
\* returns; a refused insert is thrown
createUser(rows, userData, t) ==
    IF OpenidTaken(rows, userData.openid)
    THEN [error |-> TRUE, rows |-> rows, data |-> NoUser]
    ELSE LET row == UserRow(UserId(Len(rows) + 1), userData.openid,
                            userData.nickname, userData.avatar_url, t)
         IN  [error |-> FALSE, rows |-> Append(rows, row), data |-> row]

\* updateData of userDb.updateUser: a copy of updates; with last_login_at
\* set, the field is given the time and then deleted from the copy
UpdateUserData(updates, t) ==
    IF "last_login_at" \in DOMAIN updates /\ updates["last_login_at"] = TRUE
    THEN LET stamped == [updates EXCEPT !["last_login_at"] = t]
         IN  [f \in (DOMAIN stamped) \ {"last_login_at"} |-> stamped[f]]
    ELSE updates

\* A row with the fields of updateData written over its own
Updated(row, updateData) ==
    LET Field(f) == IF f \in DOMAIN updateData THEN updateData[f] ELSE row[f]
    IN  [id            |-> Field("id"),
         openid        |-> Field("openid"),
         nickname      |-> Field("nickname"),
         avatar_url    |-> Field("avatar_url"),
         created_at    |-> Field("created_at"),
         last_login_at |-> Field("last_login_at")]

\* userDb.updateUser(openid, updates) at instant t: the update of the rows
\* with the openid, and the error of .single() unless it was one row
updateUser(rows, openid, updates, t) ==
    LET updateData == UpdateUserData(updates, t)
        hit        == RowsWith(rows, openid)
    IN  [error |-> Cardinality(hit) # 1,
         rows  |-> [i \in 1..Len(rows) |->
                       IF i \in hit THEN Updated(rows[i], updateData)
                       ELSE rows[i]]]

\* historyDb.addHistory(historyData): the row inserted, with a new id
addHistory(table, historyData) ==
    [rows   |-> table.rows \cup
                   {[id       |-> table.issued + 1,
                     user_id  |-> historyData.user_id,
                     blessing |-> historyData.blessing]},
     issued |-> table.issued + 1]

\* Variant: the delete filters on the id alone
deleteHistory_anyOwner(table, historyId, userId) ==
    [table EXCEPT !.rows = {h \in @ : h.id # historyId}]

\* historyDb.deleteHistory(historyId, userId):
\* delete().eq('id', historyId).eq('user_id', userId)
deleteHistory(table, historyId, userId) ==
    [table EXCEPT !.rows = {h \in @ : ~(h.id = historyId /\ h.user_id = userId)}]

\* The history the registered users have when a run starts: record 1 of
\* 'u1', and record 2 of the holder if the holder is registered
HistoryOf(rows) ==
    [rows   |-> {[id |-> i, user_id |-> rows[i].id, blessing |-> "earlier"] :
                    i \in 1..Len(rows)},
     issued |-> Len(rows)]

\* A run starts with the registered users rows
InitStore(rows) ==
    /\ now = GatewayStart
    /\ envSecret \in EnvSecrets
    /\ minted = NoToken
    /\ call = NoCall
    /\ reqs = [r \in Slots |-> IdleRequest]
    /\ counters = <<>>
    /\ admitCalls = <<>>
    /\ served = 0
    /\ passed = <<>>
    /\ users = rows
    /\ history = HistoryOf(rows)
    /\ logins = [l \in LoginSlots |-> IdleLogin]

(***************************************************************************)
(* SpecLogin: MaxLogins POST /api/auth/wechat/login requests in evaluation *)
(* at the same time, each a sequence of steps between its awaits           *)
(***************************************************************************)
\* Messages of POST login, by what they say:
\*   MISSING_CODE         the WeChat login code is missing
\*   WECHAT_LOGIN_FAILED  'WeChat login failed: ' (errmsg follows)
\*   LOGIN_FAILED         login failed, retry later
\* The error text of a response is the sequence of its pieces.

\* What the login leaves of request lg when it answers with an error
LoginRespond(lg, status, error) ==
    [lg EXCEPT !.pc = "done", !.status = status, !.error = error]

\* The user information a login request carries, by name
UserInfos == {"absent", "given"}

\* userInfo?.nickName || fallback, userInfo?.avatarUrl || fallback
NickNameOr(userInfo, fallback) ==
    IF userInfo = "given" THEN "new name" ELSE fallback

AvatarUrlOr(userInfo, fallback) ==
    IF userInfo = "given" THEN "new.png" ELSE fallback

\* POST login up to its first await on the identity provider: the body is
\* parsed (request.json() may throw) and the code looked at
LoginPOST(l) ==
    /\ logins[l].pc = "idle"
    /\ \E body \in {"unparsable", "read"}, code \in {"", "code-1"},
          userInfo \in UserInfos :
          logins' = [logins EXCEPT ![l] =
              IF body = "unparsable"
              THEN LoginRespond(@, 500, <<"LOGIN_FAILED">>)
              ELSE IF code = ""
              THEN LoginRespond([@ EXCEPT !.code = code, !.userInfo = userInfo],
                                400, <<"MISSING_CODE">>)
              ELSE [@ EXCEPT !.pc = "exchange", !.code = code,
                             !.userInfo = userInfo,
                             !.calls = Append(@, "fetch")]]
    /\ UNCHANGED <<now, envSecret, tokenVars, gatewayVars, users, history>>

\* What jscode2session answers: an error (errcode 40029, 'invalid code'),
\* or the openid of the holder or of a user not seen before
WechatResponses ==
    { [errcode |-> 40029, errmsg |-> "invalid code", openid |-> NoValue],
      [errcode |-> 0, errmsg |-> "", openid |-> Holder.openid],
      [errcode |-> 0, errmsg |-> "", openid |-> UnseenOpenid] }

\* if (wechatData.errcode)
ExchangeFailed(wechatData) == wechatData.errcode # 0

\* The identity provider has answered (or fetch threw); on an openid the
\* login calls userDb.getUserByOpenid
LoginExchange(l) ==
    /\ logins[l].pc = "exchange"
    /\ \E threw \in BOOLEAN, wechatData \in WechatResponses :
          logins' = [logins EXCEPT ![l] =
              IF threw
              THEN LoginRespond(@, 500, <<"LOGIN_FAILED">>)
              ELSE IF ExchangeFailed(wechatData)
              THEN LoginRespond([@ EXCEPT !.wechatData = wechatData], 400,
                                <<"WECHAT_LOGIN_FAILED", wechatData.errmsg>>)
              ELSE [@ EXCEPT !.pc = "lookup", !.wechatData = wechatData,
                             !.openid = wechatData.openid,
                             !.calls = Append(@, "getUserByOpenid")]]
    /\ UNCHANGED <<now, envSecret, tokenVars, gatewayVars, users, history>>

\* userDb.getUserByOpenid has answered (or thrown); the login goes on to
\* create the user, or to update the one found
LoginLookup(l) ==
    /\ logins[l].pc = "lookup"
    /\ \E threw \in BOOLEAN :
       \E user \in {getUserByOpenid(users, logins[l].openid)} :
          logins' = [logins EXCEPT ![l] =
              IF threw
              THEN LoginRespond(@, 500, <<"LOGIN_FAILED">>)
              ELSE [@ EXCEPT !.pc = IF user = NoUser THEN "create" ELSE "update",
                             !.user = user, !.found = user # NoUser,
                             !.calls = Append(@, IF user = NoUser
                                                 THEN "createUser"
                                                 ELSE "updateUser")]]
    /\ UNCHANGED <<now, envSecret, tokenVars, gatewayVars, users, history>>

\* Variant: the token is minted for the openid as subject
LoginToken_openidAsSubject(user, openid, t, env) ==
    generateToken(openid, openid, t, env)

\* const token = generateToken(user.id, openid)
LoginToken(user, openid, t, env) == generateToken(user.id, openid, t, env)

\* The 200 response of a login: the user as the handler holds it, the token,
\* and the token as auth_token cookie
LoginSucceed(lg, user, t, env) ==
    LET token == LoginToken(user, lg.openid, t, env) IN
    [lg EXCEPT !.pc = "done", !.status = 200, !.user = user, !.at = t,
               !.token = token, !.cookie = token,
               !.calls = Append(@, "generateToken")]

\* userDb.createUser has answered (or thrown)
LoginCreate(l) ==
    /\ logins[l].pc = "create"
    /\ \E threw \in BOOLEAN :
       \E made \in {createUser(users,
                               [openid     |-> logins[l].openid,
                                nickname   |-> NickNameOr(logins[l].userInfo,
                                                          "WeChat user"),
                                avatar_url |-> AvatarUrlOr(logins[l].userInfo,
                                                           "")],
                               now)} :
          IF threw \/ made.error
          THEN /\ logins' = [logins EXCEPT ![l] =
                                LoginRespond(@, 500, <<"LOGIN_FAILED">>)]
               /\ users' = users
          ELSE /\ logins' = [logins EXCEPT ![l] =
                                LoginSucceed(@, made.data, now, envSecret)]
               /\ users' = made.rows
    /\ UNCHANGED <<now, envSecret, tokenVars, gatewayVars, history>>

\* userDb.updateUser has answered (or thrown); the handler goes on with the
\* row it looked up
LoginUpdate(l) ==
    /\ logins[l].pc = "update"
    /\ \E threw \in BOOLEAN :
       \E done \in {updateUser(users, logins[l].openid,
                               [nickname      |-> NickNameOr(logins[l].userInfo,
                                                     logins[l].user.nickname),
                                avatar_url    |-> AvatarUrlOr(logins[l].userInfo,
                                                     logins[l].user.avatar_url),
                                last_login_at |-> TRUE],
                               now)} :
          IF threw
          THEN /\ logins' = [logins EXCEPT ![l] =
                                LoginRespond(@, 500, <<"LOGIN_FAILED">>)]
               /\ users' = users
          ELSE IF done.error
          THEN /\ logins' = [logins EXCEPT ![l] =
                                LoginRespond(@, 500, <<"LOGIN_FAILED">>)]
               /\ users' = done.rows
          ELSE /\ logins' = [logins EXCEPT ![l] =
                                LoginSucceed(@, @.user, now, envSecret)]
               /\ users' = done.rows
    /\ UNCHANGED <<now, envSecret, tokenVars, gatewayVars, history>>

InitLogin == InitStore(<<OtherRow, HolderRow>>)

\* The instants the logins read (new Date(), Date.now()): the start and a
\* later one
LoginClock == {GatewayStart, GatewayStart + 1}

\* Time passes between two steps of the logins
LoginTick ==
    /\ \E t \in LoginClock :
          /\ t > now
          /\ now' = t
    /\ UNCHANGED <<envSecret, tokenVars, gatewayVars, storeVars>>

NextLogin ==
    \/ LoginTick
    \/ \E l \in LoginSlots :
          \/ LoginPOST(l)
          \/ LoginExchange(l)
          \/ LoginLookup(l)
          \/ LoginCreate(l)
          \/ LoginUpdate(l)

SpecLogin == InitLogin /\ [][NextLogin]_vars

(***************************************************************************)
(* SpecHistory: POST /api/blessing and DELETE /api/user/history called one *)
(* after the other on a store with registered users, their reads and       *)
(* writes of the store spelled out                                         *)
(***************************************************************************)
\* The number of requests a run of SpecHistory evaluates
MaxStoreRequests == 3

\* The texts generateBlessing returns
Blessings == {"happy new year", "good fortune"}

\* A handler is called with a request of the supported client
DeliverStore ==
    /\ served < MaxStoreRequests
    /\ reqs[One].pc = "idle"
    /\ \E route \in {"blessingPOST", "historyDELETE"} :
          reqs' = [reqs EXCEPT ![One] =
                      [IdleRequest EXCEPT !.pc = "route", !.ua = "wechat",
                                          !.route = route]]
    /\ served' = served + 1
    /\ UNCHANGED <<now, envSecret, tokenVars, counters, admitCalls, passed, storeVars>>

\* generateBlessing has returned a blessing, or thrown: the catch block
\* answers 500 with one of its messages
BlessingGenerated(r) ==
    /\ reqs[r].pc = "generating"
    /\ \E outcome \in {"throttled", "failed"} \cup Blessings :
          reqs' = [reqs EXCEPT ![r] =
              CASE outcome = "throttled" -> Respond(@, 500, "TOO_FREQUENT")
                [] outcome = "failed"    -> Respond(@, 500, "GENERATE_FAILED")
                [] OTHER -> [@ EXCEPT !.pc = "bookkeeping",
                                      !.generated = outcome]]
    /\ UNCHANGED <<now, envSecret, tokenVars, counters, admitCalls, served, passed, storeVars>>

\* if (userError || !user)
LookupFailed(user, userError) == userError \/ user = NoUser

\* Variant: the failure of the insert is not caught around addHistory
HistoryErrorCaught_rethrown == FALSE

\* try { await historyDb.addHistory(...) } catch (historyError) { log }
HistoryErrorCaught == TRUE

\* The 200 response with the blessing
BlessingReply(q) == [Respond(q, 200, "") EXCEPT !.blessing = q.generated]

\* POST /api/blessing after generateBlessing returned: the user is looked
\* up by the openid of the token, the history row inserted for the user
\* found, and the blessing returned
BlessingBookkeeping(r) ==
    /\ reqs[r].pc = "bookkeeping"
    /\ \E storeError \in BOOLEAN, historyError \in BOOLEAN :
       \E user \in {IF storeError THEN NoUser
                    ELSE SelectIdSingle(users, reqs[r].decoded.openid)} :
       \E q \in {[Called(reqs[r], "users") EXCEPT !.user = user]} :
          IF LookupFailed(user, storeError \/ user = NoUser)
          THEN /\ reqs' = [reqs EXCEPT ![r] = BlessingReply(q)]
               /\ history' = history
          ELSE IF historyError
          THEN /\ reqs' = [reqs EXCEPT ![r] =
                              IF HistoryErrorCaught
                              THEN BlessingReply(Called(q, "history"))
                              ELSE Respond(Called(q, "history"),
                                           500, "GENERATE_FAILED")]
               /\ history' = history
          ELSE /\ reqs' = [reqs EXCEPT ![r] = BlessingReply(Called(q, "history"))]
               /\ history' = addHistory(history,
                                        [user_id  |-> user.id,
                                         blessing |-> q.generated])
    /\ UNCHANGED <<now, envSecret, tokenVars, counters, admitCalls, served, passed, users, logins>>

\* DELETE /api/user/history after authentication: the id parameter (0: not
\* sent), the user of the token's openid, and the delete
HistoryDeleteBody(r) ==
    /\ reqs[r].pc = "rest"
    /\ reqs[r].route = "historyDELETE"
    /\ \E historyId \in 0..(history.issued + 1),
          storeError \in BOOLEAN, deleteError \in BOOLEAN :
       \E user \in {IF storeError THEN NoUser
                    ELSE SelectIdSingle(users, reqs[r].decoded.openid)} :
       \E q \in {[reqs[r] EXCEPT !.historyId = historyId]} :
          IF historyId = 0
          THEN /\ reqs' = [reqs EXCEPT ![r] = Respond(q, 400, "INVALID_INPUT")]
               /\ history' = history
          ELSE IF user = NoUser
          THEN /\ reqs' = [reqs EXCEPT ![r] =
                              Respond(Called(q, "users"), 404, "USER_NOT_FOUND")]
               /\ history' = history
          ELSE IF deleteError
          THEN /\ reqs' = [reqs EXCEPT ![r] =
                              Respond([Called(Called(q, "users"), "history")
                                          EXCEPT !.user = user],
                                      500, "ROUTE_FAILED")]
               /\ history' = history
          ELSE /\ reqs' = [reqs EXCEPT ![r] =
                              Respond([Called(Called(q, "users"), "history")
                                          EXCEPT !.user = user],
                                      200, "")]
               /\ history' = deleteHistory(history, historyId, user.id)
    /\ UNCHANGED <<now, envSecret, tokenVars, counters, admitCalls, served, passed, users, logins>>

\* The holder of the tokens is registered, or is not
InitHistory ==
    \E rows \in {<<OtherRow, HolderRow>>, <<OtherRow>>} : InitStore(rows)

NextHistory ==
    \/ DeliverStore
    \/ Retire
    \/ BlessingPOST(One)
    \/ HistoryDELETE(One)
    \/ BlessingBody(One)
    \/ BlessingGenerated(One)
    \/ BlessingBookkeeping(One)
    \/ HistoryDeleteBody(One)

SpecHistory == InitHistory /\ [][NextHistory]_vars

(***************************************************************************)
(* Properties of the gateway                                               *)
(***************************************************************************)
Min(a, b) == IF a < b THEN a ELSE b

\* The calls of a request to the blessing API that runs to the end, in order
BlessingPipeline ==
    <<"getClientIP", "checkRateLimit", "handler", "verifyToken",
      "validateInput", "generateBlessing", "users", "history">>

IsPrefix(p, q) == Len(p) <= Len(q) /\ SubSeq(q, 1, Len(p)) = p

\* The token the handler extracted from the credentials request q carried
TokenOf(q) ==
    ExtractToken(CookieValue(q.credentials.cookie, envSecret),
                 AuthorizationHeader(q.credentials.authorization, envSecret))

CredentialsRead(q) == q.credentials.cookie # "unread"

\* C4 - atomic ceiling under concurrency: of the concurrent checkRateLimit
\* calls for one client address in one window, exactly min(calls, N) return
\* allowed = true, in every interleaving, and those are the requests the
\* middleware lets through.
C4_AtomicCeiling ==
    \A w \in DOMAIN admitCalls :
        LET calls   == {r \in Slots : reqs[r].nth > 0
                                      /\ <<reqs[r].ip, reqs[r].key[2]>> = w}
            allowed == {r \in calls : reqs[r].limitResult.success}
            through == {r \in calls : reqs[r].pc = "route"}
        IN  /\ Cardinality(calls) = admitCalls[w]
            /\ Cardinality(allowed) = Min(Cardinality(calls), MAX_REQUESTS)
            /\ through = allowed

\* C4 witness: more than N requests of one address were in the limiter at
\* the same time and were counted in another order than they arrived, in one
\* window; N of them were let through.
C4_Witness ==
    /\ \A r \in Slots : reqs[r].nth > 0 /\ reqs[r].key = reqs[1].key
    /\ reqs[MaxRequests].nth = 1
    /\ reqs[1].nth = MaxRequests
    /\ MaxRequests > MAX_REQUESTS
    /\ Cardinality({r \in Slots : reqs[r].pc = "route"}) = MAX_REQUESTS

C6_FailClosed ==
    reqs[One].threw =>
        /\ reqs[One].pc = "done"
        /\ reqs[One].status = 503
        /\ reqs[One].error = "SERVICE_UNAVAILABLE"
        /\ "handler" \notin {reqs[One].calls[i] : i \in 1..Len(reqs[One].calls)}
        /\ ~reqs[One].limitResult.success

\* C6 witness: checkRateLimit threw for a request with a valid client type,
\* and the answer is 503.
C6_Witness ==
    /\ reqs[One].threw
    /\ reqs[One].calls = <<"getClientIP", "checkRateLimit">>
    /\ reqs[One].status = 503

\* C7 - sequential ceiling: the k-th checkRateLimit call for an address in
\* one window is allowed and let through for k <= N, denied and answered 429
\* for k > N, and the (N+1)-th reports remaining = 0.
C7_SequentialCeiling ==
    LET q == reqs[One] IN
    q.nth > 0 =>
        /\ q.nth <= MAX_REQUESTS =>
              (q.limitResult.success /\ q.status # 429 /\ q.pc # "limit")
        /\ q.nth > MAX_REQUESTS =>
              (~q.limitResult.success /\ q.pc = "done" /\ q.status = 429)
        /\ q.nth = MAX_REQUESTS + 1 =>
              (q.limitResult.remaining = 0 /\ q.headers.remaining = 0)

\* C7 witness: the (N+1)-th request of an address in one window, answered
\* 429 with remaining 0.
C7_Witness ==
    /\ reqs[One].nth = MAX_REQUESTS + 1
    /\ reqs[One].status = 429
    /\ reqs[One].headers.remaining = 0

\* C8 - window reset: the first checkRateLimit call for an address after a
\* window boundary starts a fresh counter (count = 1) and is allowed and let
\* through, whatever the previous window counted; the store holds no record
\* of a window that has ended.
C8_WindowReset ==
    /\ \A k \in DOMAIN counters : counters[k].expiresAt > now
    /\ LET q == reqs[One] IN
       q.nth = 1 =>
           /\ q.limitResult.count = 1
           /\ q.limitResult.success
           /\ q.status # 429

\* C8 witness: an address denied in one window is let through by its first
\* call in the next.
C8_Witness ==
    LET q == reqs[One] IN
    /\ q.nth = 1
    /\ q.limitResult.count = 1
    /\ q.pc = "route"
    /\ CallsUnder(<<q.ip, q.key[2] - 1>>) > MAX_REQUESTS

\* C9 - forbidden client first: a request whose User-Agent does not contain
\* 'MicroMessenger' is answered 403 by the middleware, and neither the
\* limiter nor a handler nor verifyToken is called for it.
C9_ForbiddenClientFirst ==
    LET q == reqs[One] IN
    (q.pc \notin {"idle", "middleware"}
     /\ ~Includes(UserAgentText(q.ua), MICRO_MESSENGER))
        => /\ q.pc = "done"
           /\ q.status = 403
           /\ q.error = "WECHAT_ONLY"
           /\ q.calls = <<>>
           /\ q.nth = 0

\* C9 witness: a browser's request to the blessing API, answered 403.
C9_Witness ==
    /\ reqs[One].ua = "browser"
    /\ reqs[One].route = "blessingPOST"
    /\ reqs[One].status = 403
    /\ reqs[One].calls = <<>>

\* C10 - authentication outcomes: in the handler of every auth-required
\* route, a request without a token is answered 401 "not logged in" with
\* neither verifyToken nor the user store called; a request whose token
\* verifyToken rejects (forged, malformed or expired) is answered 401
\* "session expired" with the user store neither read nor written.
C10_AuthOutcomes ==
    LET q == reqs[One] IN
    (q.route \in AuthRoutes /\ CredentialsRead(q)) =>
        \A token \in {TokenOf(q)} :
            /\ token = NoValue =>
                  /\ q.pc = "done" /\ q.status = 401 /\ q.error = "NOT_LOGGED_IN"
                  /\ q.calls[Len(q.calls)] = "handler"
            /\ token # NoValue =>
                  \E i \in 1..Len(q.calls) : q.calls[i] = "verifyToken"
            /\ (token # NoValue /\ ~q.decoded.ok) =>
                  /\ q.pc = "done" /\ q.status = 401 /\ q.error = "SESSION_EXPIRED"
                  /\ q.calls[Len(q.calls)] = "verifyToken"
            /\ q.credentials.cookie \in {"old", "forged", "garbage"}
                  => ~q.decoded.ok

\* C10 witness: PUT /api/user/profile with an expired token, answered 401
\* "session expired" before the user store is touched.
C10_Witness ==
    /\ reqs[One].route = "profilePUT"
    /\ reqs[One].credentials.cookie = "old"
    /\ reqs[One].status = 401
    /\ reqs[One].error = "SESSION_EXPIRED"
    /\ reqs[One].calls = <<"handler", "verifyToken">>

\* The calls request q has made, as a set
CallsOf(q) == {q.calls[i] : i \in 1..Len(q.calls)}

\* C21 - single rate-limited endpoint: for a request to any route but the
\* blessing API the middleware calls neither getClientIP nor checkRateLimit,
\* attaches no rate-limit headers and, after the client-type check, hands the
\* request to its route; and no step of such a request changes a counter of
\* the store: only a returning checkRateLimit call of a blessing request does
\* (and the passing of time, which drops the windows that have ended).
C21_OnlyBlessingMetered ==
    /\ [](LET q == reqs[One] IN
          (q.pc # "idle" /\ q.route # "blessingPOST") =>
              /\ q.pc # "limit"
              /\ CallsOf(q) \cap {"getClientIP", "checkRateLimit"} = {}
              /\ q.nth = 0
              /\ q.key = NoKey
              /\ q.limitResult = NoLimit
              /\ ~q.threw
              /\ q.headers = NoHeaders
              /\ q.status \notin {429, 503}
              /\ Includes(UserAgentText(q.ua), MICRO_MESSENGER) =>
                    (q.pc \in {"middleware", "route"} \/ "handler" \in CallsOf(q)))
    /\ [][((counters' # counters /\ now' = now) \/ admitCalls' # admitCalls) =>
              (reqs[One].route = "blessingPOST" /\ reqs[One].pc = "limit")]_vars

\* C21 witness: with an address at its ceiling in the running window, a
\* request to the profile API is answered 200 by its handler, without
\* rate-limit headers and without having been counted.
C21_Witness ==
    /\ \E k \in DOMAIN counters : counters[k].count > MAX_REQUESTS
    /\ reqs[One].route = "profileGET"
    /\ reqs[One].status = 200
    /\ reqs[One].headers = NoHeaders
    /\ reqs[One].nth = 0
    /\ "handler" \in CallsOf(reqs[One])

\* C24 - guarded downstream call: generateBlessing is called for a request
\* only after the client-type check passed, checkRateLimit counted and
\* admitted it, verifyToken accepted its token and validateInput passed, in
\* that order; a request answered 403, 401, 429, 503 or 400 has not reached
\* generateBlessing.
C24_GuardedGeneration ==
    LET q == reqs[One] IN
    /\ "generateBlessing" \in CallsOf(q) =>
          /\ q.route = "blessingPOST"
          /\ Includes(UserAgentText(q.ua), MICRO_MESSENGER)
          /\ q.nth > 0
          /\ q.nth <= MAX_REQUESTS
          /\ q.limitResult.success
          /\ ~q.threw
          /\ q.decoded.ok
          /\ q.decoded.openid = Holder.openid
          /\ \/ q.credentials.cookie = "fresh"
             \/ (q.credentials.cookie = "none"
                 /\ q.credentials.authorization = "fresh")
          /\ IsPrefix(SubSeq(BlessingPipeline, 1, 6), q.calls)
    /\ q.status \in {403, 401, 429, 503, 400} =>
          "generateBlessing" \notin CallsOf(q)

\* C24 witness: a blessing request, counted last under the ceiling, with a
\* valid bearer token and a valid body, for which generateBlessing is running.
C24_Witness ==
    /\ reqs[One].pc = "generating"
    /\ reqs[One].nth = MAX_REQUESTS
    /\ reqs[One].credentials.authorization = "fresh"
    /\ reqs[One].credentials.cookie = "none"
    /\ reqs[One].calls = SubSeq(BlessingPipeline, 1, 6)

(***************************************************************************)
(* Properties of the handlers                                              *)
(***************************************************************************)
\* C11 - token transport and precedence: every route that requires a token
\* accepts it from the auth_token cookie and from an 'Authorization: Bearer'
\* header, and with both present verifyToken is given the cookie's value.
C11_CookieOrBearer ==
    LET q == reqs[One] IN
    (q.route \in TokenRoutes /\ CredentialsRead(q)) =>
        /\ (q.credentials.cookie = "fresh"
            /\ q.credentials.authorization = "none") => q.decoded.ok
        /\ (q.credentials.cookie = "none"
            /\ q.credentials.authorization = "fresh") => q.decoded.ok
        /\ (q.credentials.cookie = "garbage"
            /\ q.credentials.authorization = "fresh") => ~q.decoded.ok

\* What the body of a PUT /api/user/profile request supplies
Supplied(value) == value # JsonUndefined

\* A supplied nickname that is not a string, blank after trimming or longer
\* than 100 characters
BadNickname(value) ==
    /\ Supplied(value)
    /\ \/ value.type # "string"
       \/ \A i \in 1..Len(value.text) : IsSpace(value.text[i])
       \/ Len(value.text) > 100

\* A supplied avatarUrl that is not a string or longer than 500 characters
BadAvatarUrl(value) ==
    /\ Supplied(value)
    /\ (value.type # "string" \/ Len(value.text) > 500)

\* C16 - profile update validation: an authenticated PUT /api/user/profile
\* whose nickname is supplied but not a string, blank or longer than 100
\* characters, whose avatarUrl is supplied but not a string or longer than
\* 500 characters, or which supplies neither, is answered 400 with the
\* message of that case and no update reaches the user store; an update is
\* issued exactly when every supplied field is valid and one is supplied.
C16_ProfileValidation ==
    LET q == reqs[One] IN
    (q.route = "profilePUT" /\ q.body # NoBody) =>
        LET nickname  == NicknameValue(q.body.nickname)
            avatarUrl == AvatarUrlValue(q.body.avatarUrl)
            updated   == \E i \in 1..Len(q.calls) : q.calls[i] = "users.update"
            refused   == q.status = 400 /\ ~updated
        IN  /\ BadNickname(nickname) =>
                  (refused /\ q.error = "NICKNAME_INVALID")
            /\ (~BadNickname(nickname) /\ BadAvatarUrl(avatarUrl)) =>
                  (refused /\ q.error = "AVATAR_URL_INVALID")
            /\ (~Supplied(nickname) /\ ~Supplied(avatarUrl)) =>
                  (refused /\ q.error = "NO_FIELDS")
            /\ updated <=>
                  /\ ~BadNickname(nickname)
                  /\ ~BadAvatarUrl(avatarUrl)
                  /\ (Supplied(nickname) \/ Supplied(avatarUrl))

\* C16 witness: a nickname of 101 characters with a valid avatarUrl, refused
\* with the nickname message and without an update.
C16_Witness ==
    /\ reqs[One].route = "profilePUT"
    /\ reqs[One].body = [nickname |-> "tooLong", avatarUrl |-> "longest"]
    /\ reqs[One].status = 400
    /\ reqs[One].error = "NICKNAME_INVALID"
    /\ reqs[One].calls = <<"handler", "verifyToken">>

(***************************************************************************)
(* Properties of the limiter and of the resolver                           *)
(***************************************************************************)
\* C14 - rate-limited rejection: whenever checkRateLimit returns a denial,
\* the middleware answers 429 with the limit, a remaining count of 0 and a
\* reset instant later than the instant of the request, and the request is
\* not handed to the route.
C14_RateLimitedRejection ==
    LET q == reqs[One] IN
    (q.nth > 0 /\ ~q.limitResult.success) =>
        /\ q.pc = "done"
        /\ q.status = 429
        /\ q.error = "TOO_FREQUENT"
        /\ q.headers.limit = MAX_REQUESTS
        /\ q.headers.remaining = 0
        /\ q.headers.reset > q.at
        /\ q.calls = <<"getClientIP", "checkRateLimit">>

\* C14 witness: a request denied in the last ms of a window, answered 429
\* with a reset instant one ms ahead.
C14_Witness ==
    /\ reqs[One].status = 429
    /\ reqs[One].nth > MAX_REQUESTS
    /\ reqs[One].headers.remaining = 0
    /\ reqs[One].headers.reset = reqs[One].at + 1

\* C15 - rate-limit metadata on every outcome: a request for which
\* checkRateLimit returned a decision carries X-RateLimit-Limit,
\* X-RateLimit-Remaining and X-RateLimit-Reset with the values of that
\* decision, when it is let through and when it is answered 429.
C15_MetadataOnEveryOutcome ==
    LET q == reqs[One] IN
    q.nth > 0 =>
        /\ q.pc = "route" \/ (q.pc = "done" /\ q.status = 429)
        /\ q.headers.limit = q.limitResult.limit
        /\ q.headers.remaining = q.limitResult.remaining
        /\ q.headers.reset = q.limitResult.resetTime
        /\ q.headers.limit > 0 /\ q.headers.remaining >= 0 /\ q.headers.reset > 0

\* C15 witness: the first request of a window, let through with the headers
\* of its decision.
C15_Witness ==
    /\ reqs[One].pc = "route"
    /\ reqs[One].nth = 1
    /\ reqs[One].headers =
           [limit     |-> MAX_REQUESTS,
            remaining |-> MAX_REQUESTS - 1,
            reset     |-> (reqs[One].at \div WINDOW_MS + 1) * WINDOW_MS]

\* C19 - decision arithmetic: the decision of the k-th call of an address
\* in a window, as the middleware surfaces it, has count = k,
\* allowed = (k <= N), remaining = max(0, N - k), which is between 0 and
\* N - 1 when allowed, and a reset instant that is the end of the bucket
\* floor(now / W) of the instant the call was counted at.
C19_DecisionArithmetic ==
    LET q == reqs[One]
        d == q.limitResult
    IN
    q.nth > 0 =>
        /\ d.count = q.nth
        /\ d.success <=> (q.nth <= MAX_REQUESTS)
        /\ d.remaining = (IF MAX_REQUESTS >= q.nth
                          THEN MAX_REQUESTS - q.nth ELSE 0)
        /\ d.remaining >= 0
        /\ d.success => d.remaining \in 0..(MAX_REQUESTS - 1)
        /\ d.resetTime = (q.at \div WINDOW_MS + 1) * WINDOW_MS
        /\ d.resetTime > q.at /\ d.resetTime - q.at <= WINDOW_MS
        /\ q.headers.remaining = d.remaining
        /\ q.headers.reset = d.resetTime

\* C19 witness: the N-th call of a window, counted in the first ms of the
\* window, allowed with nothing remaining.
C19_Witness ==
    /\ reqs[One].nth = MAX_REQUESTS
    /\ reqs[One].limitResult.success
    /\ reqs[One].limitResult.remaining = 0
    /\ reqs[One].at % WINDOW_MS = 0
    /\ reqs[One].limitResult.resetTime = reqs[One].at + WINDOW_MS

RECURSIVE SumOf(_, _)
SumOf(f, S) ==
    IF S = {} THEN 0
    ELSE LET x == CHOOSE y \in S : TRUE IN f[x] + SumOf(f, S \ {x})

\* The requests of an address let through in the interval of length W that
\* starts at an instant
PassedIn(ip, from) ==
    SumOf(passed, {k \in DOMAIN passed :
                      k[1] = ip /\ k[2] >= from /\ k[2] < from + WINDOW_MS})

\* C20 - boundary burst bound: the requests of one address the middleware
\* lets through in any interval of length W are at most 2N.
C20_BurstBound ==
    \A k \in DOMAIN passed : PassedIn(k[1], k[2]) <= 2 * MAX_REQUESTS

\* C20 witness: 2N requests of one address let through within two ms, N in
\* the last ms of a window and N in the first ms of the next.
C20_Witness ==
    \E k \in DOMAIN passed :
        /\ (k[2] + 1) % WINDOW_MS = 0
        /\ passed[k] = MAX_REQUESTS
        /\ PassedAt(<<k[1], k[2] + 1>>) = MAX_REQUESTS
        /\ PassedIn(k[1], k[2]) = 2 * MAX_REQUESTS

\* The first address of a forwarding header: its first run of characters
\* that are neither ',' nor ' '
FirstAddress(header) ==
    LET first == CHOOSE i \in 1..Len(header) :
                     /\ header[i] \notin {44, 32}
                     /\ \A j \in 1..(i - 1) : header[j] \in {44, 32}
        last  == CHOOSE e \in first..Len(header) :
                     /\ \A j \in first..e : header[j] \notin {44, 32}
                     /\ (e = Len(header) \/ header[e + 1] \in {44, 32})
    IN  SubSeq(header, first, last)

HoldsAddress(header) == \E i \in 1..Len(header) : header[i] \notin {44, 32}

\* C17 - client identity resolution: for a forwarding header that holds one
\* or more addresses separated by commas or blanks, getClientIP returns the
\* first address of the chain; without a forwarding header it returns the
\* address of the direct connection.
C17_FirstForwardedAddress ==
    call.kind = "resolve" =>
        IF HoldsAddress(call.header)
        THEN call.result = FirstAddress(call.header)
        ELSE (call.header = <<>> /\ call.remote # "")
                 => call.result = call.remote

\* C17 witness: '1, 2' (two hops, separated by a comma and a blank) resolved
\* to '1'.
C17_Witness ==
    /\ call.kind = "resolve"
    /\ call.header = <<49, 44, 32, 50>>
    /\ call.result = <<49>>


(***************************************************************************)
(* Properties of POST login                                                *)
(***************************************************************************)
\* The error texts of POST login that are fixed in the code
LoginMessages ==
    {<<"MISSING_CODE">>, <<"WECHAT_LOGIN_FAILED">>, <<"LOGIN_FAILED">>}

\* C22 - no internal detail in responses: the error text of every failure
\* response is one of a fixed set of messages, with no text of an upstream
\* or internal error in it.
C22_FixedMessages ==
    \A l \in LoginSlots :
        logins[l].status >= 400 =>
            /\ logins[l].error \in LoginMessages
            /\ \A i \in 1..Len(logins[l].error) :
                  \A w \in WechatResponses : logins[l].error[i] # w.errmsg

\* C28 - one user per openid: no two rows of users hold the same openid, in
\* every interleaving of the logins.
C28_OneUserPerOpenid ==
    \A i, j \in 1..Len(users) : users[i].openid = users[j].openid => i = j

\* C28 witness: two logins with the same openid, unseen before, both looked
\* the user up before either created it; one created it and answered 200,
\* the other's createUser was called and the login answered 500; users holds
\* one row with the openid.
C28_Witness ==
    \E a, b \in LoginSlots :
        /\ a # b
        /\ logins[a].openid = UnseenOpenid
        /\ logins[b].openid = UnseenOpenid
        /\ ~logins[a].found
        /\ ~logins[b].found
        /\ logins[a].status = 200
        /\ logins[a].calls =
              <<"fetch", "getUserByOpenid", "createUser", "generateToken">>
        /\ logins[b].status = 500
        /\ logins[b].calls = <<"fetch", "getUserByOpenid", "createUser">>
        /\ Cardinality(RowsWith(users, UnseenOpenid)) = 1

\* C29 - tokens only after successful login: a login holds a token only if
\* it carried a code, the identity provider answered without an error code,
\* and users holds a row for the openid; the token verifies to that row's id
\* and openid and is the auth_token cookie of the 200 response; a login
\* answered 400 or 500 has neither token nor cookie, and generateToken was
\* not called for it.
C29_TokenAfterLogin ==
    \A l \in LoginSlots :
        LET lg == logins[l] IN
        /\ lg.status \in {0, 200, 400, 500}
        /\ lg.status = 200 => lg.token # NoValue
        /\ lg.token # NoValue =>
              /\ lg.status = 200
              /\ lg.code # ""
              /\ ~ExchangeFailed(lg.wechatData)
              /\ lg.wechatData.openid = lg.openid
              /\ \E i \in 1..Len(users) :
                    /\ users[i].openid = lg.openid
                    /\ users[i].id = lg.user.id
              /\ \A decoded \in {verifyToken(lg.token, now, envSecret)} :
                    /\ decoded.ok
                    /\ decoded.userId = lg.user.id
                    /\ decoded.openid = lg.user.openid
              /\ lg.cookie = lg.token
        /\ lg.status \in {400, 500} =>
              /\ lg.token = NoValue
              /\ lg.cookie = NoValue
              /\ \A i \in 1..Len(lg.calls) : lg.calls[i] # "generateToken"

\* C29 witness: a first-time login created its user and holds a token, and
\* another login, refused by the identity provider, was answered 400.
C29_Witness ==
    \E a, b \in LoginSlots :
        /\ logins[a].status = 200
        /\ ~logins[a].found
        /\ logins[a].token # NoValue
        /\ logins[a].user.id = UserId(3)
        /\ logins[b].status = 400
        /\ ExchangeFailed(logins[b].wechatData)

\* C30 - login refreshes last_login_at: after a login of a user that
\* existed has answered 200, the user's row holds a last_login_at not
\* earlier than the instant of the login's update, under the same id and
\* openid.
C30_LoginRefreshesLastLogin ==
    \A l \in LoginSlots :
        LET lg == logins[l] IN
        (lg.status = 200 /\ lg.found) =>
            \E i \in 1..Len(users) :
                /\ users[i].openid = lg.openid
                /\ users[i].id = lg.user.id
                /\ users[i].last_login_at >= lg.at

(***************************************************************************)
(* Properties of the handlers on the store                                 *)
(***************************************************************************)
\* C26 - bookkeeping never loses a blessing: once generateBlessing has
\* returned a blessing for a request, the request is answered 200 with that
\* blessing, whether the user lookup failed or found no user or the history
\* insert failed; addHistory is called only for a user the lookup found, and
\* a step of a blessing request that changes user_history inserts one row,
\* for the user of the token's openid, with that blessing.
C26_BookkeepingKeepsBlessing ==
    /\ [](LET q == reqs[One] IN
          (q.route = "blessingPOST" /\ q.generated # "") =>
              /\ q.pc \in {"bookkeeping", "done"}
              /\ q.pc = "done" => (q.status = 200 /\ q.blessing = q.generated)
              /\ "history" \in CallsOf(q) => q.user # NoUser)
    /\ [][(history' # history /\ reqs[One].route = "blessingPOST") =>
             /\ reqs'[One].user # NoUser
             /\ \E i \in 1..Len(users) :
                   /\ users[i].openid = reqs[One].decoded.openid
                   /\ users[i].id = reqs'[One].user.id
             /\ history.rows \subseteq history'.rows
             /\ history'.rows \ history.rows =
                   {[id       |-> history.issued + 1,
                     user_id  |-> reqs'[One].user.id,
                     blessing |-> reqs[One].generated]}]_vars

\* C26 witness: a blessing request of the registered holder whose history
\* insert failed: addHistory was called, user_history holds no row with the
\* blessing, and the answer is 200 with the blessing.
C26_Witness ==
    LET q == reqs[One] IN
    /\ q.route = "blessingPOST"
    /\ q.generated \in Blessings
    /\ q.user = [id |-> Holder.userId]
    /\ "history" \in CallsOf(q)
    /\ \A h \in history.rows : h.blessing # q.generated
    /\ q.status = 200
    /\ q.blessing = q.generated

\* C27 - own history only: a step removes a row of user_history only if it
\* is a history DELETE whose token verified, the row has the id the request
\* names, and its user_id is the id of the user with the token's openid; the
\* record of the other user is never removed by the holder's requests.
C27_OwnHistoryOnly ==
    /\ [](\E h \in history.rows : h.id = 1 /\ h.user_id = OtherRow.id)
    /\ [][\A h \in history.rows \ history'.rows :
             /\ reqs[One].route = "historyDELETE"
             /\ reqs[One].decoded.ok
             /\ h.id = reqs'[One].historyId
             /\ \E i \in 1..Len(users) :
                   /\ users[i].openid = reqs[One].decoded.openid
                   /\ users[i].id = h.user_id]_vars

\* C27 witness: the registered holder's DELETE names the record of the other
\* user; it is answered 200 and both users' records are where they were.
C27_Witness ==
    LET q == reqs[One] IN
    /\ q.route = "historyDELETE"
    /\ q.status = 200
    /\ q.decoded.ok
    /\ q.user = [id |-> Holder.userId]
    /\ q.historyId = 1
    /\ \E h \in history.rows : h.id = 1 /\ h.user_id = OtherRow.id
    /\ \E h \in history.rows : h.id = 2 /\ h.user_id = Holder.userId

=============================================================================
